---- MODULE Spec2Model ----
(***************************************************************************)
(* The rule / distribution store of internal/storage/sql/common/rule.go.   *)
(* The two tables written by the file (rules, distributions) are the       *)
(* state; the tables it only joins against (flags, variants) are fixed.    *)
(* Every public method of Store is given statement by statement: one       *)
(* action per statement it sends and per reading of the clock, so that the *)
(* calls of several callers interleave as they do against the database.    *)
(* CountRules and DeleteDistribution send one statement and are one action *)
(* each. The result a call returns is kept with the caller.                *)
(***************************************************************************)
EXTENDS Integers, Sequences, FiniteSets, TLC

\* ------------------------------------------------------------------ bounds
\* Rule ids handed out (uuid.NewV4 never repeats: ids are 1, 2, ...).
MaxRules == 3
\* Distribution ids handed out.
MaxDists == 1
\* Largest value the wall clock reaches.
MaxClock == 1
\* Largest page size a caller asks for.
MaxLimit == 2

\* --------------------------------------------------------------- constants
DefaultNamespace == "default"

NamespaceArgs == {"", "default", "ns2"}
FlagKeys == {"f1", "f2"}
SegmentKeys == {"s1", "s2"}
VariantIds == {"v1", "v2", "v3"}
Rollouts == {50, 100}
RuleIds == 1..MaxRules
DistIds == 1..MaxDists
Orders == {"ASC", "DESC"}

\* The flags table (written by the flag store, read by the validation join).
Flags ==
    { [namespace_key |-> "default", key |-> "f1"],
      [namespace_key |-> "default", key |-> "f2"],
      [namespace_key |-> "ns2", key |-> "f1"] }

\* The variants table (written by the flag store, read by the validation join).
Variants ==
    { [id |-> "v1", namespace_key |-> "default", flag_key |-> "f1"],
      [id |-> "v2", namespace_key |-> "default", flag_key |-> "f2"],
      [id |-> "v3", namespace_key |-> "ns2", flag_key |-> "f1"] }

VARIABLES
    rules,      \* table rules: a set of rows
    dists,      \* table distributions: a set of rows
    nextRule,   \* the next fresh rule id
    nextDist,   \* the next fresh distribution id
    clock,      \* what timestamppb.Now() returns
    calls       \* per caller: the call it is making, or the one it made last
                \* and what it returned

vars == <<rules, dists, nextRule, nextDist, clock, calls>>

\* ----------------------------------------------------------------- helpers
\* A handler that uses the namespace key as it was given.
NamespaceAsGiven(ns) == ns

\* if namespaceKey == "" { namespaceKey = storage.DefaultNamespace }
Namespace(ns) == IF ns = "" THEN DefaultNamespace ELSE ns

\* WHERE namespace_key = ns AND flag_key = flag
ScopeRows(tbl, ns, flag) ==
    { r \in tbl : r.namespace_key = ns /\ r.flag_key = flag }

\* WHERE id = id AND namespace_key = ns AND flag_key = flag
RuleRows(tbl, id, ns, flag) ==
    { r \in ScopeRows(tbl, ns, flag) : r.id = id }

\* A query without its ORDER BY: the rows of S in any order.
IsAnyOrder(s, S, dir) ==
    /\ Len(s) = Cardinality(S)
    /\ { s[i] : i \in 1..Len(s) } = S

\* s is an answer ORDER BY "rank" <dir> may give for the rows S: every row
\* once, by rank, rows of equal rank in any order.
IsRankOrder(s, S, dir) ==
    /\ Len(s) = Cardinality(S)
    /\ { s[i] : i \in 1..Len(s) } = S
    /\ \A i \in 1..(Len(s) - 1) :
         IF dir = "DESC" THEN s[i].rank >= s[i + 1].rank
                         ELSE s[i].rank <= s[i + 1].rank

\* Every sequence that holds each element of S once.
RECURSIVE Orderings(_)
Orderings(S) ==
    IF S = {} THEN { <<>> }
    ELSE UNION { { <<x>> \o s : s \in Orderings(S \ {x}) } : x \in S }

\* All such answers.
RankOrders(S, dir) ==
    { s \in Orderings(S) : IsRankOrder(s, S, dir) }

Ids(rows) == [i \in 1..Len(rows) |-> rows[i].id]

Min(a, b) == IF a < b THEN a ELSE b

\* ON DELETE CASCADE of distributions.rule_id: the rows of ds that are left
\* when the rules `gone` are deleted, those of every other rule id.
Cascade(gone, ds) == { d \in ds : \A r \in gone : r.id # d.rule_id }

\* ------------------------------------------------------------- rule store
NoCall == [op |-> "none", err |-> "ok", res |-> <<>>]

\* The callers: each makes one call at a time, statement by statement.
Callers == {"a", "b"}

\* A caller that has not called. A call is its request (op, ns, flag, id,
\* seg, rank, ruleId, variantId, rollout, limit, order, pageToken), the place
\* it has reached (pc), what the handler holds in its locals (now, found,
\* offset, ruleIDs, n, updatedAt), the transaction it opened (state, writes,
\* latest: the last of the callers to commit), what it returned (err, res),
\* and what the caller has gathered by following page tokens (first: the
\* offset it began at, pages: the ids of the pages so far).
NotCalling ==
    [op |-> "none", pc |-> "idle", err |-> "ok", ns |-> "", flag |-> "",
     id |-> 0, seg |-> "", rank |-> 0, ruleId |-> 0, variantId |-> "",
     rollout |-> 0, limit |-> 0, order |-> "", pageToken |-> <<>>, now |-> 0,
     found |-> <<>>, offset |-> 0, ruleIDs |-> <<>>, n |-> 0, updatedAt |-> 0,
     state |-> "none", writes |-> <<>>, latest |-> FALSE, res |-> <<>>,
     first |-> 0, pages |-> <<>>]

\* The caller is not in the middle of a call.
Free(p) == calls[p].pc \in {"idle", "returned"}

\* What caller a, whose calls are read one after the other, was answered
\* last: the call that returned and what it returned.
last ==
    IF calls["a"].pc = "returned"
    THEN [op |-> calls["a"].op, err |-> calls["a"].err, res |-> calls["a"].res]
    ELSE NoCall

Init ==
    /\ rules = {}
    /\ dists = {}
    /\ nextRule = 1
    /\ nextDist = 1
    /\ clock = 0
    /\ calls = [p \in Callers |-> NotCalling]

\* Time passes, between calls and between the statements of a call.
Tick ==
    /\ clock < MaxClock
    /\ clock' = clock + 1
    /\ UNCHANGED <<rules, dists, nextRule, nextDist, calls>>

\* The row CreateRule inserts: the caller's rank, verbatim.
NewRule(id, ns, flag, seg, rank, now) ==
    [id |-> id, namespace_key |-> ns, flag_key |-> flag, segment_key |-> seg,
     rank |-> rank, created_at |-> now, updated_at |-> now]

\* CreateRule: the table it leaves and the rule it returns; newId is the id
\* uuid.NewV4 hands out.
CreateRuleResult(tbl, newId, ns, flag, seg, rank, now) ==
    [rules |-> tbl \cup {NewRule(newId, Namespace(ns), flag, seg, rank, now)},
     res |-> NewRule(newId, Namespace(ns), flag, seg, rank, now)]

\* SELECT ... FROM distributions WHERE rule_id IN ids (GetRule, setDistributions).
\* The rows are kept as a set: their order by created_at is not used below.
DistributionsOf(ds, ids) == { d \in ds : d.rule_id \in ids }

\* A rule as returned to the caller: the row and its distributions.
WithDistributions(r, ds) ==
    [id |-> r.id, namespace_key |-> r.namespace_key, flag_key |-> r.flag_key,
     segment_key |-> r.segment_key, rank |-> r.rank,
     created_at |-> r.created_at, updated_at |-> r.updated_at,
     distributions |-> DistributionsOf(ds, {r.id})]

\* Where a GetRule call can fail: the SELECT of the rule row, or the SELECT
\* of its distributions (the query, a Scan, or rows.Err).
GetRuleFailures == {"none", "rules", "distributions"}

\* What the loop over the distributions may have appended when it stops on
\* an error: the first rows of ORDER BY created_at ASC, none to all of them.
Scanned(ds) ==
    { seen \in SUBSET ds :
        \A d \in seen : \A e \in ds \ seen : d.created_at <= e.created_at }

\* GetRule: SELECT ... FROM rules WHERE id = id AND namespace_key = ns, then
\* the distributions of the row found. A failure of the first query returns
\* no rule; a failure while reading the distributions returns the rule with
\* the distributions appended so far (seen), together with the error.
GetRuleResult(tbl, ds, ns, id, fail, seen) ==
    LET found == { r \in tbl : r.id = id /\ r.namespace_key = Namespace(ns) }
        rule == CHOOSE r \in found : TRUE
    IN IF fail = "rules"
       THEN [err |-> "error", res |-> <<>>]
       ELSE IF found = {}
       THEN [err |-> "NotFound", res |-> <<>>]
       ELSE IF fail = "distributions"
       THEN [err |-> "error", res |-> WithDistributions(rule, seen)]
       ELSE [err |-> "ok", res |-> WithDistributions(rule, ds)]

\* SELECT COUNT(*) FROM rules WHERE namespace_key = ns AND flag_key = flag
CountRulesResult(tbl, ns, flag) ==
    Cardinality(ScopeRows(tbl, Namespace(ns), flag))

\* The UPDATE with a WHERE that names the flag alone.
SetSegmentOfFlag(tbl, id, ns, flag, seg, now) ==
    { IF r.flag_key = flag
      THEN [r EXCEPT !.segment_key = seg, !.updated_at = now]
      ELSE r : r \in tbl }

\* UPDATE rules SET segment_key, updated_at WHERE id, namespace_key, flag_key
SetSegment(tbl, id, ns, flag, seg, now) ==
    { IF r \in RuleRows(tbl, id, ns, flag)
      THEN [r EXCEPT !.segment_key = seg, !.updated_at = now]
      ELSE r : r \in tbl }

\* Where an UpdateRule call can fail: the UPDATE, the count of the rows it
\* affected, or one of the two queries of the GetRule that ends the call.
UpdateRuleFailures == {"none", "update", "count", "rules", "distributions"}

\* UpdateRule: the table it leaves and what it returns. The UPDATE is
\* committed when it has run: an error of RowsAffected or of the GetRule
\* that follows is returned with the row already changed.
UpdateRuleResult(tbl, ds, ns, flag, id, seg, now, fail, seen) ==
    LET count == Cardinality(RuleRows(tbl, id, Namespace(ns), flag))
        out == SetSegment(tbl, id, Namespace(ns), flag, seg, now)
        get == GetRuleResult(out, ds, Namespace(ns), id,
                             IF fail \in {"rules", "distributions"} THEN fail
                             ELSE "none", seen)
    IN IF fail = "update"
       THEN [rules |-> tbl, err |-> "error", res |-> <<>>]
       ELSE IF fail = "count"
       THEN [rules |-> out, err |-> "error", res |-> <<>>]
       ELSE IF count # 1
       THEN [rules |-> out, err |-> "NotFound", res |-> <<>>]
       ELSE [rules |-> out, err |-> get.err, res |-> get.res]

\* ---------------------------------------------------------- transactions
\* An error path that ends the transaction with tx.Commit() where
\* tx.Rollback() belongs: what the transaction wrote so far is published.
RollbackKeepsWrites(db, tx) == tx

\* tx.Rollback() on an error path: the committed database db stays as it
\* is, whatever the transaction has written (tx is the database as the
\* transaction sees it).
Rollback(db, tx) == db

\* A Commit that reports success and publishes nothing.
CommitDropsWrites(db, tx) == db

\* tx.Commit(): the database is what the transaction wrote.
Commit(db, tx) == tx

\* UpdateRank with the loop index taken as the rank (ranks from 0).
UpdateRankFromZero(tbl, id, ns, flag, rank, updatedAt) ==
    { IF r \in RuleRows(tbl, id, ns, flag)
      THEN [r EXCEPT !.rank = rank - 1, !.updated_at = updatedAt]
      ELSE r : r \in tbl }

\* UpdateRank without its Set("rank", ...): only updated_at is written.
UpdateRankKeepsRank(tbl, id, ns, flag, rank, updatedAt) ==
    { IF r \in RuleRows(tbl, id, ns, flag)
      THEN [r EXCEPT !.updated_at = updatedAt]
      ELSE r : r \in tbl }

\* The UPDATE with a WHERE that names the id alone.
UpdateRankAnyScope(tbl, id, ns, flag, rank, updatedAt) ==
    { IF r.id = id
      THEN [r EXCEPT !.rank = rank, !.updated_at = updatedAt]
      ELSE r : r \in tbl }

\* One statement of orderRules' loop:
\* UPDATE rules SET "rank" = rank, updated_at WHERE id, namespace_key, flag_key
UpdateRank(tbl, id, ns, flag, rank, updatedAt) ==
    { IF r \in RuleRows(tbl, id, ns, flag)
      THEN [r EXCEPT !.rank = rank, !.updated_at = updatedAt]
      ELSE r : r \in tbl }

\* The table after the first n statements of orderRules' loop over ruleIDs:
\* the id at index i (from 0) gets rank i+1, every statement the same updatedAt.
RECURSIVE orderRules(_, _, _, _, _, _)
orderRules(tbl, ns, flag, ruleIDs, updatedAt, n) ==
    IF n = 0
    THEN tbl
    ELSE UpdateRank(orderRules(tbl, ns, flag, ruleIDs, updatedAt, n - 1),
                    ruleIDs[n], ns, flag, (n - 1) + 1, updatedAt)

\* Where a DeleteRule or OrderRules call may fail: Begin, the DELETE, the
\* SELECT of the remaining ids (the query, a Scan, rows.Err), the k-th UPDATE
\* of orderRules, Commit.
DeleteFailures == {"none", "begin", "delete", "query", "scan", "rows", "update", "commit"}
OrderFailures == {"none", "begin", "update", "commit"}

\* The DELETE without the cascade to the rule's distributions.
DeleteRowKeepsDistributions(db, id, ns, flag) ==
    [rules |-> db.rules \ RuleRows(db.rules, id, ns, flag),
     dists |-> db.dists]

\* DELETE FROM rules WHERE id, namespace_key, flag_key; the schema's
\* ON DELETE CASCADE takes the rule's distributions with it.
DeleteRow(db, id, ns, flag) ==
    [rules |-> db.rules \ RuleRows(db.rules, id, ns, flag),
     dists |-> Cascade(RuleRows(db.rules, id, ns, flag), db.dists)]

\* The answers SELECT id ... ORDER BY "rank" ASC may give inside the
\* transaction, after the DELETE.
RemainingRows(db, ns, flag, id) ==
    RankOrders(ScopeRows(DeleteRow(db, id, Namespace(ns), flag).rules,
                         Namespace(ns), flag), "ASC")

\* A DeleteRule that stops after its DELETE and compacts nothing.
DeleteTxNoReorder(db, id, ns, flag, rows, updatedAt, fail, k) ==
    IF fail \in {"begin", "delete"} THEN db ELSE DeleteRow(db, id, ns, flag)

\* What the transaction of DeleteRule has written when the call returns;
\* `rows` is the answer to SELECT id ... ORDER BY "rank" ASC.
DeleteTx(db, id, ns, flag, rows, updatedAt, fail, k) ==
    IF fail \in {"begin", "delete"} THEN db
    ELSE IF fail \in {"query", "scan", "rows"} THEN DeleteRow(db, id, ns, flag)
    ELSE [rules |-> orderRules(DeleteRow(db, id, ns, flag).rules, ns, flag, Ids(rows),
                               updatedAt, IF fail = "update" THEN k - 1 ELSE Len(rows)),
          dists |-> DeleteRow(db, id, ns, flag).dists]

\* DeleteRule: the database it leaves and the error it returns.
DeleteRuleResult(db, ns, flag, id, rows, now, fail, k) ==
    [db |-> IF fail = "none"
            THEN Commit(db, DeleteTx(db, id, Namespace(ns), flag, rows, now, fail, k))
            ELSE Rollback(db, DeleteTx(db, id, Namespace(ns), flag, rows, now, fail, k)),
     err |-> IF fail = "none" THEN "ok" ELSE "error"]

\* What the transaction of OrderRules has written when the call returns.
OrderTx(db, ns, flag, ruleIds, updatedAt, fail, k) ==
    IF fail = "begin" THEN db
    ELSE [rules |-> orderRules(db.rules, ns, flag, ruleIds, updatedAt,
                               IF fail = "update" THEN k - 1 ELSE Len(ruleIds)),
          dists |-> db.dists]

\* OrderRules: the database it leaves and the error it returns.
OrderRulesResult(db, ns, flag, ruleIds, now, fail, k) ==
    [db |-> IF fail = "none"
            THEN Commit(db, OrderTx(db, Namespace(ns), flag, ruleIds, now, fail, k))
            ELSE Rollback(db, OrderTx(db, Namespace(ns), flag, ruleIds, now, fail, k)),
     err |-> IF fail = "none" THEN "ok" ELSE "error"]

\* ------------------------------------------- the calls, statement by statement
\* Every call is the statements it sends, one action each, so that the calls
\* of the callers interleave. A statement sent to the database itself is
\* committed when it has run. For the transactions of DeleteRule and
\* OrderRules the database is assumed to give what database/sql transactions
\* give on the supported engines: a transaction's statements see the
\* committed rows and its own writes, nobody else sees its writes before
\* Commit, and Commit publishes them in one step. Engines that make a writer
\* wait for another only take interleavings away.

\* One DELETE or UPDATE as it acts on a database.
ApplyWrite(db, ns, flag, w) ==
    IF w.kind = "del"
    THEN DeleteRow(db, w.id, ns, flag)
    ELSE [rules |-> UpdateRank(db.rules, w.id, ns, flag, w.rank, w.at),
          dists |-> db.dists]

\* The first n statements of a transaction, in the order they were sent.
RECURSIVE Apply(_, _, _, _, _)
Apply(db, ns, flag, writes, n) ==
    IF n = 0
    THEN db
    ELSE ApplyWrite(Apply(db, ns, flag, writes, n - 1), ns, flag, writes[n])

\* What the statements of caller p's transaction see.
View(p) ==
    Apply([rules |-> rules, dists |-> dists], calls[p].ns, calls[p].flag,
          calls[p].writes, Len(calls[p].writes))

\* A statement sent to the database itself: it is committed on the spot.
RunWithDb(db, tx, w) ==
    [db |-> ApplyWrite(db, tx.ns, tx.flag, w), tx |-> tx]

\* RunWith(tx) / RunWith(runner): the statement belongs to the transaction.
RunWith(db, tx, w) ==
    [db |-> db, tx |-> [tx EXCEPT !.writes = Append(@, w)]]

\* An error return that forgets tx.Rollback().
TxLeftOpen(tx) == tx

\* _ = tx.Rollback()
TxRollback(tx) == [tx EXCEPT !.state = "rolledback", !.writes = <<>>]

\* return err / return tx.Commit() of DeleteRule and OrderRules: what the
\* call read and what became of its transaction stay on record.
Return(tx, err) == [tx EXCEPT !.pc = "returned", !.err = err]

\* return nil, err / return x, nil of the other handlers: the locals are
\* gone; which handler was called and what it returned stay on record.
Returned(call, err, res) ==
    [NotCalling EXCEPT !.op = call.op, !.pc = "returned", !.err = err,
                       !.res = res]

\* The UPDATE stamped with the time of the statement.
UpdatedAtNow(tx, now) == now

\* The updated_at of an UPDATE of orderRules: the value captured on entry.
UpdatedAt(tx, now) == tx.updatedAt

\* DeleteRule up to and including s.db.Begin().
BeginDelete(p, ns, flag, id, fail) ==
    LET req  == [NotCalling EXCEPT !.op = "DeleteRule", !.ns = Namespace(ns),
                                   !.flag = flag, !.id = id]
        call == IF fail
                THEN Return(req, "error")
                ELSE [req EXCEPT !.state = "open", !.pc = "delete"]
    IN /\ Free(p)
       /\ calls' = [calls EXCEPT ![p] = call]
       /\ UNCHANGED <<rules, dists, nextRule, nextDist, clock>>

\* DeleteRule's DELETE FROM rules, and the tx.Rollback() and return if it
\* fails.
DeleteStmt(p, fail) ==
    LET out  == RunWith([rules |-> rules, dists |-> dists], calls[p],
                        [kind |-> "del", id |-> calls[p].id, rank |-> 0, at |-> 0])
        call == IF fail
                THEN Return(TxRollback(calls[p]), "error")
                ELSE [out.tx EXCEPT !.pc = "query"]
        back == Rollback([rules |-> rules, dists |-> dists], View(p))
    IN /\ calls[p].pc = "delete"
       /\ calls' = [calls EXCEPT ![p] = call]
       /\ rules' = IF fail THEN back.rules ELSE out.db.rules
       /\ dists' = IF fail THEN back.dists ELSE out.db.dists
       /\ UNCHANGED <<nextRule, nextDist, clock>>

\* DeleteRule's SELECT id ... ORDER BY "rank" ASC with its scan loop: the
\* ids read are the list orderRules is called with.
QueryRemaining(p, rows, fail) ==
    LET call == IF fail = "none"
                THEN [calls[p] EXCEPT !.ruleIDs = Ids(rows), !.pc = "enter"]
                ELSE Return(TxRollback(calls[p]), "error")
        back == Rollback([rules |-> rules, dists |-> dists], View(p))
    IN /\ calls[p].pc = "query"
       /\ IsRankOrder(rows, ScopeRows(View(p).rules, calls[p].ns, calls[p].flag),
                      "ASC")
       /\ calls' = [calls EXCEPT ![p] = call]
       /\ rules' = IF fail = "none" THEN rules ELSE back.rules
       /\ dists' = IF fail = "none" THEN dists ELSE back.dists
       /\ UNCHANGED <<nextRule, nextDist, clock>>

\* OrderRules up to and including s.db.Begin().
BeginOrder(p, ns, flag, ruleIds, fail) ==
    LET req  == [NotCalling EXCEPT !.op = "OrderRules", !.ns = Namespace(ns),
                                   !.flag = flag, !.ruleIDs = ruleIds]
        call == IF fail
                THEN Return(req, "error")
                ELSE [req EXCEPT !.state = "open", !.pc = "enter"]
    IN /\ Free(p)
       /\ calls' = [calls EXCEPT ![p] = call]
       /\ UNCHANGED <<rules, dists, nextRule, nextDist, clock>>

\* The entry of orderRules: updatedAt := timestamppb.Now(), read once, before
\* the loop, at whatever time the caller gets there.
EnterOrderRules(p) ==
    /\ calls[p].pc = "enter"
    /\ calls' = [calls EXCEPT ![p] = [@ EXCEPT !.updatedAt = clock, !.n = 0,
                                               !.pc = "update"]]
    /\ UNCHANGED <<rules, dists, nextRule, nextDist, clock>>

\* One turn of orderRules' loop: the UPDATE of the next id, and the rollback
\* and return of the caller if it fails.
UpdateStmt(p, fail) ==
    LET tx   == calls[p]
        out  == RunWith([rules |-> rules, dists |-> dists], tx,
                        [kind |-> "rank", id |-> tx.ruleIDs[tx.n + 1],
                         rank |-> tx.n + 1, at |-> UpdatedAt(tx, clock)])
        call == IF fail
                THEN Return(TxRollback(tx), "error")
                ELSE [out.tx EXCEPT !.n = tx.n + 1]
        back == Rollback([rules |-> rules, dists |-> dists], View(p))
    IN /\ tx.pc = "update"
       /\ tx.n < Len(tx.ruleIDs)
       /\ calls' = [calls EXCEPT ![p] = call]
       /\ rules' = IF fail THEN back.rules ELSE out.db.rules
       /\ dists' = IF fail THEN back.dists ELSE out.db.dists
       /\ UNCHANGED <<nextRule, nextDist, clock>>

\* return tx.Commit(): the transaction ends either way; when Commit succeeds
\* its statements reach the committed rows together.
CommitTx(p, fail) ==
    LET tx   == calls[p]
        out  == Commit([rules |-> rules, dists |-> dists], View(p))
        call == IF fail
                THEN Return(TxRollback(tx), "error")
                ELSE Return([tx EXCEPT !.state = "committed", !.latest = TRUE], "ok")
    IN /\ tx.pc = "update"
       /\ tx.n = Len(tx.ruleIDs)
       /\ calls' = [q \in Callers |->
                      IF q = p THEN call
                      ELSE IF fail THEN calls[q]
                      ELSE [calls[q] EXCEPT !.latest = FALSE]]
       /\ rules' = IF fail THEN rules ELSE out.rules
       /\ dists' = IF fail THEN dists ELSE out.dists
       /\ UNCHANGED <<nextRule, nextDist, clock>>

\* ------------------------------------------------------------------ list
\* base64(json.Marshal(PageToken{Key, Offset})): the token is a sequence,
\* the empty token the empty sequence.
EncodePageToken(key, offset) == <<"PageToken", key, offset>>

\* decodePageToken: the payload of a well-formed token, an error otherwise.
decodePageToken(tok) ==
    IF Len(tok) = 3 /\ tok[1] = "PageToken"
    THEN [err |-> "ok", Key |-> tok[2], Offset |-> tok[3]]
    ELSE [err |-> "decode", Key |-> 0, Offset |-> 0]

\* ListOffset reading the raw offset though a token is given.
ListOffsetIgnoresToken(pageToken, offsetParam) ==
    IF offsetParam > 0 THEN offsetParam ELSE 0

\* The precedence the other way round: the raw offset when it is positive,
\* else the token's.
ListOffsetPrefersRaw(pageToken, offsetParam) ==
    IF offsetParam > 0
    THEN offsetParam
    ELSE IF pageToken # <<>> THEN decodePageToken(pageToken).Offset ELSE 0

\* The offset of the query: the token's when a token is given, else the
\* raw offset when it is positive.
ListOffset(pageToken, offsetParam) ==
    IF pageToken # <<>>
    THEN decodePageToken(pageToken).Offset
    ELSE IF offsetParam > 0 THEN offsetParam ELSE 0

\* Fetched with LIMIT limit, not limit+1.
FetchedNoLookahead(rows, limit, offset) ==
    SubSeq(rows, offset + 1,
           IF limit > 0 THEN Min(Len(rows), offset + limit) ELSE Len(rows))

\* The rows the query returns out of `rows` (all rows of the scope in the
\* order of ORDER BY): OFFSET offset, and LIMIT limit+1 when limit > 0.
Fetched(rows, limit, offset) ==
    SubSeq(rows, offset + 1,
           IF limit > 0 THEN Min(Len(rows), offset + (limit + 1)) ELSE Len(rows))

\* results.Results and results.NextPageToken out of the fetched rows.
Page(fetched, limit, offset) ==
    IF Len(fetched) > limit /\ limit > 0
    THEN [results |-> SubSeq(fetched, 1, limit),
          next |-> EncodePageToken(fetched[Len(fetched)].id,
                                   offset + Len(SubSeq(fetched, 1, limit)))]
    ELSE [results |-> fetched, next |-> <<>>]

\* ListRules: what it returns, `rows` being the rows of the scope in the
\* order ORDER BY "rank" <order> gives them.
ListRulesResult(ds, limit, pageToken, offsetParam, rows) ==
    IF pageToken # <<>> /\ decodePageToken(pageToken).err # "ok"
    THEN [err |-> "decode", offset |-> 0, results |-> <<>>, next |-> <<>>]
    ELSE LET offset == ListOffset(pageToken, offsetParam)
             page == Page(Fetched(rows, limit, offset), limit, offset)
         IN [err |-> "ok", offset |-> offset,
             results |-> [i \in 1..Len(page.results) |->
                            WithDistributions(page.results[i], ds)],
             next |-> page.next]

\* The rows ListRules selects from:
\* FROM rules WHERE flag_key = flagKey AND namespace_key = namespaceKey
ListScope(tbl, ns, flag) == ScopeRows(tbl, Namespace(ns), flag)

\* The page tokens a caller passes: none, a malformed one, any well-formed one.
PageTokens ==
    {<<>>, <<"junk">>}
      \cup { EncodePageToken(key, offset) : key \in RuleIds, offset \in 0..MaxRules }

\* ---------------------------------------------------------- distributions
\* The join without variants' namespace_key: any variant of that id counts.
ValidationCountAnyVariantNamespace(tbl, ns, flagKey, ruleId, variantId) ==
    Cardinality({ t \in tbl \X Variants \X Flags :
                    /\ t[1].namespace_key = t[3].namespace_key
                    /\ t[1].namespace_key = ns
                    /\ t[1].id = ruleId
                    /\ t[2].id = variantId
                    /\ t[3].key = flagKey })

\* SELECT COUNT(*) FROM rules JOIN variants USING (namespace_key)
\*   JOIN flags USING (namespace_key)
\* WHERE namespace_key = ns AND rules.id = ruleId AND variants.id = variantId
\*   AND flags.key = flagKey
ValidationCount(tbl, ns, flagKey, ruleId, variantId) ==
    Cardinality({ t \in tbl \X Variants \X Flags :
                    /\ t[1].namespace_key = t[2].namespace_key
                    /\ t[1].namespace_key = t[3].namespace_key
                    /\ t[1].namespace_key = ns
                    /\ t[1].id = ruleId
                    /\ t[2].id = variantId
                    /\ t[3].key = flagKey })

\* sql.ErrNoRows when the join has no row.
distributionValidationHelper(tbl, ns, flagKey, ruleId, variantId) ==
    IF ValidationCount(tbl, ns, flagKey, ruleId, variantId) < 1
    THEN "ErrNoRows" ELSE "ok"

\* errs.ErrNotFoundf("variant %q, rule %q, flag %q in namespace %q", ...) of
\* CreateDistribution: the variant and the rule the error names.
NotFoundTuple(ns, flag, ruleId, variantId) ==
    [variant_id |-> variantId, rule_id |-> ruleId]

NewDistribution(id, ruleId, variantId, rollout, now) ==
    [id |-> id, rule_id |-> ruleId, variant_id |-> variantId, rollout |-> rollout,
     created_at |-> now, updated_at |-> now]

\* WHERE id = id AND rule_id = ruleId AND variant_id = variantId
DistRows(ds, id, ruleId, variantId) ==
    { d \in ds : d.id = id /\ d.rule_id = ruleId /\ d.variant_id = variantId }

\* Where a CreateDistribution call can fail: the validation query or the
\* INSERT.
CreateDistributionFailures == {"none", "validation", "insert"}

\* CreateDistribution: the table it leaves and what it returns; newId is
\* the id uuid.NewV4 hands out. An error of the validation query is returned
\* as it is; only sql.ErrNoRows becomes NotFound.
CreateDistributionResult(tbl, ds, newId, ns, flag, ruleId, variantId, rollout, now, fail) ==
    IF fail = "validation"
    THEN [dists |-> ds, err |-> "error", res |-> <<>>]
    ELSE IF distributionValidationHelper(tbl, Namespace(ns), flag, ruleId,
                                         variantId) # "ok"
    THEN [dists |-> ds, err |-> "NotFound",
          res |-> NotFoundTuple(Namespace(ns), flag, ruleId, variantId)]
    ELSE IF fail = "insert"
    THEN [dists |-> ds, err |-> "error", res |-> <<>>]
    ELSE [dists |-> ds \cup {NewDistribution(newId, ruleId, variantId, rollout, now)},
          err |-> "ok",
          res |-> NewDistribution(newId, ruleId, variantId, rollout, now)]

\* UPDATE distributions SET rollout, updated_at WHERE id, rule_id, variant_id
SetRollout(ds, id, ruleId, variantId, rollout, now) ==
    { IF d \in DistRows(ds, id, ruleId, variantId)
      THEN [d EXCEPT !.rollout = rollout, !.updated_at = now]
      ELSE d : d \in ds }

\* Where an UpdateDistribution call can fail: the validation query, the
\* UPDATE, the count of the rows it affected, or the SELECT of the row.
UpdateDistributionFailures == {"none", "validation", "update", "count", "select"}

\* UpdateDistribution: the table it leaves and what it returns. An error of
\* the validation query is returned as it is; the UPDATE is committed when
\* it has run, so an error of RowsAffected or of the SELECT that follows is
\* returned with the row already changed.
UpdateDistributionResult(tbl, ds, ns, flag, id, ruleId, variantId, rollout, now, fail) ==
    LET out == SetRollout(ds, id, ruleId, variantId, rollout, now)
    IN IF fail = "validation"
       THEN [dists |-> ds, err |-> "error", res |-> <<>>]
       ELSE IF distributionValidationHelper(tbl, Namespace(ns), flag, ruleId,
                                            variantId) # "ok"
       THEN [dists |-> ds, err |-> "NotFound", res |-> <<>>]
       ELSE IF fail = "update"
       THEN [dists |-> ds, err |-> "error", res |-> <<>>]
       ELSE IF fail = "count"
       THEN [dists |-> out, err |-> "error", res |-> <<>>]
       ELSE IF Cardinality(DistRows(ds, id, ruleId, variantId)) # 1
       THEN [dists |-> out, err |-> "NotFound", res |-> <<>>]
       ELSE IF fail = "select"
       THEN [dists |-> out, err |-> "error", res |-> <<>>]
       ELSE [dists |-> out, err |-> "ok",
             res |-> CHOOSE d \in DistRows(out, id, ruleId, variantId) : TRUE]

\* A DELETE whose WHERE names the id alone.
DeleteDistributionById(ds, id, ruleId, variantId, fail) ==
    [dists |-> IF fail THEN ds ELSE { d \in ds : d.id # id },
     err |-> IF fail THEN "error" ELSE "ok"]

\* DeleteDistribution: the table it leaves and the error it returns, the
\* error of DELETE FROM distributions WHERE id, rule_id, variant_id.
DeleteDistributionResult(ds, id, ruleId, variantId, fail) ==
    [dists |-> IF fail THEN ds ELSE ds \ DistRows(ds, id, ruleId, variantId),
     err |-> IF fail THEN "error" ELSE "ok"]

\* ----------------------------------- the other calls, statement by statement
\* CreateRule, GetRule, ListRules, UpdateRule, CreateDistribution and
\* UpdateDistribution: each statement runs on the database itself and is
\* committed on the spot, and the statements of other callers and the clock
\* come between any two of them.

\* The foreign key of distributions.rule_id, the one whose ON DELETE CASCADE
\* removes a deleted rule's distributions: the rule the row names is stored.
References(tbl, d) == \E r \in tbl : r.id = d.rule_id

\* INSERT INTO distributions: the table it leaves and its error. The
\* statement itself names no rule; the database refuses, as a violation of
\* the foreign key, a row whose rule is not stored.
InsertDistribution(tbl, ds, d) ==
    IF References(tbl, d)
    THEN [dists |-> ds \cup {d}, err |-> "ok"]
    ELSE [dists |-> ds, err |-> "constraint"]

\* A CreateDistribution that drops the error of its INSERT and returns the
\* distribution it built.
InsertReturnIgnoresError(call, ins, d) == Returned(call, "ok", d)

\* if _, err := ...ExecContext(ctx); err != nil { return nil, err };
\* return d, nil
InsertReturn(call, ins, d) ==
    Returned(call, ins.err, IF ins.err = "ok" THEN d ELSE <<>>)

\* CreateRule up to the rule it builds: the namespace is defaulted and the
\* time is read, before the INSERT is sent.
CreateRuleNow(p, ns, flag, seg, rank) ==
    /\ Free(p)
    /\ calls' = [calls EXCEPT ![p] =
                    [NotCalling EXCEPT !.op = "CreateRule", !.pc = "insert",
                                       !.ns = Namespace(ns), !.flag = flag,
                                       !.seg = seg, !.rank = rank, !.now = clock]]
    /\ UNCHANGED <<rules, dists, nextRule, nextDist, clock>>

\* CreateRule's INSERT INTO rules, of the rule built before, and the return.
\* The ids number the rows in the order they are inserted.
CreateRuleInsert(p, fail) ==
    LET call == calls[p]
        c    == CreateRuleResult(rules, nextRule, call.ns, call.flag, call.seg,
                                 call.rank, call.now)
        ret  == IF fail THEN Returned(call, "error", <<>>)
                ELSE Returned(call, "ok", c.res)
    IN /\ call.op = "CreateRule"
       /\ call.pc = "insert"
       /\ nextRule <= MaxRules
       /\ rules' = IF fail THEN rules ELSE c.rules
       /\ nextRule' = IF fail THEN nextRule ELSE nextRule + 1
       /\ calls' = [calls EXCEPT ![p] = ret]
       /\ UNCHANGED <<dists, nextDist, clock>>

\* GetRule's SELECT ... FROM rules WHERE id AND namespace_key: the row is
\* kept for the query of its distributions, or the call returns no rule.
SelectRule(call, tbl, fail) ==
    LET found == { r \in tbl : r.id = call.id /\ r.namespace_key = call.ns }
    IN IF fail
       THEN Returned(call, "error", <<>>)
       ELSE IF found = {}
       THEN Returned(call, "NotFound", <<>>)
       ELSE [call EXCEPT !.found = << CHOOSE r \in found : TRUE >>,
                         !.pc = "distributions"]

\* GetRule up to the answer of its first query.
GetRuleSelect(p, ns, id, fail) ==
    LET call == SelectRule([NotCalling EXCEPT !.op = "GetRule",
                                              !.ns = Namespace(ns), !.id = id],
                           rules, fail)
    IN /\ Free(p)
       /\ calls' = [calls EXCEPT ![p] = call]
       /\ UNCHANGED <<rules, dists, nextRule, nextDist, clock>>

\* GetRule's SELECT ... FROM distributions WHERE rule_id with its scan loop,
\* in GetRule and in the GetRule that ends UpdateRule: the rule read before
\* is returned with the distributions stored now, or, on an error, with
\* those appended so far.
SelectDistributions(p, fail) ==
    LET call == calls[p]
    IN /\ call.pc = "distributions"
       /\ \E seen \in Scanned(DistributionsOf(dists, {call.found[1].id})) :
            calls' = [calls EXCEPT ![p] =
                        IF fail
                        THEN Returned(call, "error",
                                      WithDistributions(call.found[1], seen))
                        ELSE Returned(call, "ok",
                                      WithDistributions(call.found[1], dists))]
       /\ UNCHANGED <<rules, dists, nextRule, nextDist, clock>>

\* Where the UPDATE of UpdateRule or UpdateDistribution can fail: the
\* statement, or the count of the rows it affected.
ExecFailures == {"none", "update", "count"}

\* UpdateRule up to the query it builds: the namespace is defaulted and the
\* time is read, before the UPDATE is sent.
UpdateRuleNow(p, ns, flag, id, seg) ==
    /\ Free(p)
    /\ calls' = [calls EXCEPT ![p] =
                    [NotCalling EXCEPT !.op = "UpdateRule", !.pc = "exec",
                                       !.ns = Namespace(ns), !.flag = flag,
                                       !.id = id, !.seg = seg, !.now = clock]]
    /\ UNCHANGED <<rules, dists, nextRule, nextDist, clock>>

\* UpdateRule's UPDATE, stamped with the time read before, and the count of
\* the rows it affected: the UPDATE is committed when it has run, whatever
\* the call returns.
UpdateRuleStmt(p, fail) ==
    LET call == calls[p]
        next == IF fail # "none"
                THEN Returned(call, "error", <<>>)
                ELSE IF Cardinality(RuleRows(rules, call.id, call.ns, call.flag)) # 1
                THEN Returned(call, "NotFound", <<>>)
                ELSE [call EXCEPT !.pc = "rules"]
    IN /\ call.op = "UpdateRule"
       /\ call.pc = "exec"
       /\ fail \in ExecFailures
       /\ rules' = IF fail = "update"
                   THEN rules
                   ELSE SetSegment(rules, call.id, call.ns, call.flag, call.seg,
                                   call.now)
       /\ calls' = [calls EXCEPT ![p] = next]
       /\ UNCHANGED <<dists, nextRule, nextDist, clock>>

\* return s.GetRule(ctx, r.NamespaceKey, r.Id): the first query of the
\* GetRule that ends UpdateRule.
UpdateRuleGet(p, fail) ==
    LET call == SelectRule(calls[p], rules, fail)
    IN /\ calls[p].op = "UpdateRule"
       /\ calls[p].pc = "rules"
       /\ calls' = [calls EXCEPT ![p] = call]
       /\ UNCHANGED <<rules, dists, nextRule, nextDist, clock>>

\* CountRules: one query, answered from the rows stored when it runs.
CountRules(p, ns, flag, fail) ==
    LET req == [NotCalling EXCEPT !.op = "CountRules", !.ns = Namespace(ns),
                                  !.flag = flag]
    IN /\ Free(p)
       /\ calls' = [calls EXCEPT ![p] =
                       IF fail
                       THEN Returned(req, "error", 0)
                       ELSE Returned(req, "ok", CountRulesResult(rules, ns, flag))]
       /\ UNCHANGED <<rules, dists, nextRule, nextDist, clock>>

\* The caller passes the token of the page it was given before (prev), with
\* the same scope, limit and order.
Follows(prev, ns, flag, limit, order, pageToken) ==
    /\ prev.op = "ListRules" /\ prev.pc = "returned" /\ prev.err = "ok"
    /\ pageToken # <<>> /\ pageToken = prev.res.next
    /\ prev.res.ns = Namespace(ns) /\ prev.res.flag = flag
    /\ prev.res.limit = limit /\ prev.res.order = order

\* ListRules up to the end of the scan of its SELECT ... FROM rules: the
\* rows fetched are kept for setDistributions.
ListRulesSelect(p, ns, flag, limit, order, pageToken, offsetParam, rows, fail) ==
    LET req  == [NotCalling EXCEPT !.op = "ListRules", !.ns = Namespace(ns),
                                   !.flag = flag, !.limit = limit,
                                   !.order = order, !.pageToken = pageToken]
        offset == ListOffset(pageToken, offsetParam)
        follows == Follows(calls[p], ns, flag, limit, order, pageToken)
        call == IF pageToken # <<>> /\ decodePageToken(pageToken).err # "ok"
                THEN Returned(req, "decode", <<>>)
                ELSE IF fail
                THEN Returned(req, "error", <<>>)
                ELSE [req EXCEPT !.offset = offset,
                                 !.found = Fetched(rows, limit, offset),
                                 !.first = IF follows THEN calls[p].res.first
                                           ELSE offset,
                                 !.pages = IF follows THEN calls[p].res.pages
                                           ELSE <<>>,
                                 !.pc = "setDistributions"]
    IN /\ Free(p)
       /\ IsRankOrder(rows, ListScope(rules, ns, flag), order)
       /\ calls' = [calls EXCEPT ![p] = call]
       /\ UNCHANGED <<rules, dists, nextRule, nextDist, clock>>

\* s.setDistributions and the rest of ListRules: the rules fetched before
\* are given the distributions stored now, and the page is cut. Besides the
\* call and its result, the answer keeps what the caller has gathered by
\* following tokens: the offset it began at and the ids of the pages so far.
SetDistributions(p, fail) ==
    LET call == calls[p]
        page == Page(call.found, call.limit, call.offset)
        results == [i \in 1..Len(page.results) |->
                      WithDistributions(page.results[i], dists)]
    IN /\ call.pc = "setDistributions"
       /\ calls' = [calls EXCEPT ![p] =
                       IF fail
                       THEN Returned(call, "error", <<>>)
                       ELSE Returned(call, "ok",
                                     [ns |-> call.ns, flag |-> call.flag,
                                      limit |-> call.limit, order |-> call.order,
                                      offset |-> call.offset, results |-> results,
                                      next |-> page.next, first |-> call.first,
                                      pages |-> call.pages \o Ids(results)])]
       /\ UNCHANGED <<rules, dists, nextRule, nextDist, clock>>

\* CreateDistribution up to the distribution it builds: the namespace is
\* defaulted and the time is read, before the validation query is sent.
CreateDistributionNow(p, ns, flag, ruleId, variantId, rollout) ==
    /\ Free(p)
    /\ calls' = [calls EXCEPT ![p] =
                    [NotCalling EXCEPT !.op = "CreateDistribution",
                                       !.pc = "validate", !.ns = Namespace(ns),
                                       !.flag = flag, !.ruleId = ruleId,
                                       !.variantId = variantId,
                                       !.rollout = rollout, !.now = clock]]
    /\ UNCHANGED <<rules, dists, nextRule, nextDist, clock>>

\* The answer of distributionValidationHelper to the call: an error of the
\* query is returned as it is, sql.ErrNoRows as NotFound; else the call goes
\* on to `pc`.
Validated(call, tbl, fail, pc) ==
    IF fail
    THEN Returned(call, "error", <<>>)
    ELSE IF distributionValidationHelper(tbl, call.ns, call.flag, call.ruleId,
                                         call.variantId) # "ok"
    THEN Returned(call, "NotFound",
                  IF call.op = "CreateDistribution"
                  THEN NotFoundTuple(call.ns, call.flag, call.ruleId,
                                     call.variantId)
                  ELSE <<>>)
    ELSE [call EXCEPT !.pc = pc]

\* CreateDistribution's validation query, on the rows stored now.
CreateDistributionValidate(p, fail) ==
    LET call == Validated(calls[p], rules, fail, "insert")
    IN /\ calls[p].op = "CreateDistribution"
       /\ calls[p].pc = "validate"
       /\ calls' = [calls EXCEPT ![p] = call]
       /\ UNCHANGED <<rules, dists, nextRule, nextDist, clock>>

\* CreateDistribution's INSERT INTO distributions, of the distribution built
\* before the validation, and the return. The ids number the rows in the
\* order they are inserted. An INSERT the database answers with an error,
\* for whatever reason, adds nothing and the error is returned as it is.
CreateDistributionInsert(p, fail) ==
    LET call == calls[p]
        d    == NewDistribution(nextDist, call.ruleId, call.variantId,
                                call.rollout, call.now)
        ins  == IF fail THEN [dists |-> dists, err |-> "error"]
                ELSE InsertDistribution(rules, dists, d)
        ret  == InsertReturn(call, ins, d)
    IN /\ call.op = "CreateDistribution"
       /\ call.pc = "insert"
       /\ ins.err = "ok" => nextDist <= MaxDists
       /\ dists' = ins.dists
       /\ nextDist' = IF ins.err = "ok" THEN nextDist + 1 ELSE nextDist
       /\ calls' = [calls EXCEPT ![p] = ret]
       /\ UNCHANGED <<rules, nextRule, clock>>

\* UpdateDistribution up to the answer of its validation query, on the rows
\* stored now.
UpdateDistributionValidate(p, ns, flag, id, ruleId, variantId, rollout, fail) ==
    LET req  == [NotCalling EXCEPT !.op = "UpdateDistribution",
                                   !.ns = Namespace(ns), !.flag = flag,
                                   !.id = id, !.ruleId = ruleId,
                                   !.variantId = variantId, !.rollout = rollout]
        call == Validated(req, rules, fail, "now")
    IN /\ Free(p)
       /\ calls' = [calls EXCEPT ![p] = call]
       /\ UNCHANGED <<rules, dists, nextRule, nextDist, clock>>

\* UpdateDistribution building its UPDATE: the time is read, after the
\* validation and before the UPDATE is sent.
UpdateDistributionNow(p) ==
    /\ calls[p].op = "UpdateDistribution"
    /\ calls[p].pc = "now"
    /\ calls' = [calls EXCEPT ![p] = [@ EXCEPT !.now = clock, !.pc = "exec"]]
    /\ UNCHANGED <<rules, dists, nextRule, nextDist, clock>>

\* UpdateDistribution's UPDATE, stamped with the time read before, and the
\* count of the rows it affected; an error of the count leaves the UPDATE
\* done.
UpdateDistributionStmt(p, fail) ==
    LET call == calls[p]
        next == IF fail # "none"
                THEN Returned(call, "error", <<>>)
                ELSE IF Cardinality(DistRows(dists, call.id, call.ruleId,
                                             call.variantId)) # 1
                THEN Returned(call, "NotFound", <<>>)
                ELSE [call EXCEPT !.pc = "select"]
    IN /\ call.op = "UpdateDistribution"
       /\ call.pc = "exec"
       /\ fail \in ExecFailures
       /\ dists' = IF fail = "update"
                   THEN dists
                   ELSE SetRollout(dists, call.id, call.ruleId, call.variantId,
                                   call.rollout, call.now)
       /\ calls' = [calls EXCEPT ![p] = next]
       /\ UNCHANGED <<rules, nextRule, nextDist, clock>>

\* The SELECT that ends UpdateDistribution: the row stored now is returned,
\* or the error of finding none.
UpdateDistributionSelect(p, fail) ==
    LET call == calls[p]
        rows == DistRows(dists, call.id, call.ruleId, call.variantId)
        ret  == IF fail \/ rows = {}
                THEN Returned(call, "error", <<>>)
                ELSE Returned(call, "ok", CHOOSE d \in rows : TRUE)
    IN /\ call.op = "UpdateDistribution"
       /\ call.pc = "select"
       /\ calls' = [calls EXCEPT ![p] = ret]
       /\ UNCHANGED <<rules, dists, nextRule, nextDist, clock>>

\* DeleteDistribution: one statement, on the rows stored when it runs.
DeleteDistribution(p, id, ruleId, variantId, fail) ==
    LET req == [NotCalling EXCEPT !.op = "DeleteDistribution", !.id = id,
                                  !.ruleId = ruleId, !.variantId = variantId]
        out == DeleteDistributionResult(dists, id, ruleId, variantId, fail)
    IN /\ Free(p)
       /\ dists' = out.dists
       /\ calls' = [calls EXCEPT ![p] = Returned(req, out.err, <<>>)]
       /\ UNCHANGED <<rules, nextRule, nextDist, clock>>

\* ------------------------------------------------------------ whole store
\* The id lists a caller passes to OrderRules: any ids, in any order, with
\* repetitions, of rules that exist or not.
IdLists == UNION { [1..n -> RuleIds] : n \in 0..MaxRules }

Next ==
    \/ Tick
    \/ \E p \in Callers, ns \in NamespaceArgs, flag \in FlagKeys,
          seg \in SegmentKeys, rank \in 1..(MaxRules + 1) :
          CreateRuleNow(p, ns, flag, seg, rank)
    \/ \E p \in Callers, fail \in BOOLEAN : CreateRuleInsert(p, fail)
    \/ \E p \in Callers, ns \in NamespaceArgs, id \in RuleIds, fail \in BOOLEAN :
          GetRuleSelect(p, ns, id, fail)
    \/ \E p \in Callers, fail \in BOOLEAN : SelectDistributions(p, fail)
    \/ \E p \in Callers, ns \in NamespaceArgs, flag \in FlagKeys,
          fail \in BOOLEAN :
          CountRules(p, ns, flag, fail)
    \/ \E p \in Callers, ns \in NamespaceArgs, flag \in FlagKeys, order \in Orders :
          \E rows \in RankOrders(ScopeRows(rules, Namespace(ns), flag), order) :
             \E limit \in 0..MaxLimit, pageToken \in PageTokens,
                offsetParam \in 0..MaxRules, fail \in BOOLEAN :
                ListRulesSelect(p, ns, flag, limit, order, pageToken, offsetParam,
                                rows, fail)
    \/ \E p \in Callers, fail \in BOOLEAN : SetDistributions(p, fail)
    \/ \E p \in Callers, ns \in NamespaceArgs, flag \in FlagKeys, id \in RuleIds,
          seg \in SegmentKeys :
          UpdateRuleNow(p, ns, flag, id, seg)
    \/ \E p \in Callers, fail \in ExecFailures : UpdateRuleStmt(p, fail)
    \/ \E p \in Callers, fail \in BOOLEAN : UpdateRuleGet(p, fail)
    \/ \E p \in Callers, ns \in NamespaceArgs, flag \in FlagKeys, id \in RuleIds,
          fail \in BOOLEAN :
          BeginDelete(p, ns, flag, id, fail)
    \/ \E p \in Callers, fail \in BOOLEAN : DeleteStmt(p, fail)
    \/ \E p \in Callers :
          \E rows \in RankOrders(ScopeRows(View(p).rules, calls[p].ns,
                                           calls[p].flag), "ASC") :
             \E fail \in {"none", "query", "scan", "rows"} :
                QueryRemaining(p, rows, fail)
    \/ \E p \in Callers, ns \in NamespaceArgs, flag \in FlagKeys,
          ruleIds \in IdLists, fail \in BOOLEAN :
          BeginOrder(p, ns, flag, ruleIds, fail)
    \/ \E p \in Callers : EnterOrderRules(p)
    \/ \E p \in Callers, fail \in BOOLEAN : UpdateStmt(p, fail)
    \/ \E p \in Callers, fail \in BOOLEAN : CommitTx(p, fail)
    \/ \E p \in Callers, ns \in NamespaceArgs, flag \in FlagKeys,
          ruleId \in RuleIds, variantId \in VariantIds, rollout \in Rollouts :
          CreateDistributionNow(p, ns, flag, ruleId, variantId, rollout)
    \/ \E p \in Callers, fail \in BOOLEAN : CreateDistributionValidate(p, fail)
    \/ \E p \in Callers, fail \in BOOLEAN : CreateDistributionInsert(p, fail)
    \/ \E p \in Callers, ns \in NamespaceArgs, flag \in FlagKeys, id \in DistIds,
          ruleId \in RuleIds, variantId \in VariantIds, rollout \in Rollouts,
          fail \in BOOLEAN :
          UpdateDistributionValidate(p, ns, flag, id, ruleId, variantId, rollout,
                                     fail)
    \/ \E p \in Callers : UpdateDistributionNow(p)
    \/ \E p \in Callers, fail \in ExecFailures : UpdateDistributionStmt(p, fail)
    \/ \E p \in Callers, fail \in BOOLEAN : UpdateDistributionSelect(p, fail)
    \/ \E p \in Callers, id \in DistIds, ruleId \in RuleIds,
          variantId \in VariantIds, fail \in BOOLEAN :
          DeleteDistribution(p, id, ruleId, variantId, fail)

\* Every behaviour of the store, with the inputs drawn from the full sets.
Spec == Init /\ [][Next]_vars

\* ------------------------------------------------------------- scenarios
\* The specifications below draw the inputs from subsets and let fewer
\* callers call: every behaviour of each is a behaviour of Spec.

\* The statements of a DeleteRule or OrderRules call that has begun, none of
\* them failing.
TxSteps(p) ==
    \/ DeleteStmt(p, FALSE)
    \/ \E rows \in RankOrders(ScopeRows(View(p).rules, calls[p].ns, calls[p].flag),
                              "ASC") :
          QueryRemaining(p, rows, "none")
    \/ EnterOrderRules(p)
    \/ UpdateStmt(p, FALSE)
    \/ CommitTx(p, FALSE)

\* The same, any of them failing.
TxStepsFailing(p) ==
    \/ \E fail \in BOOLEAN : DeleteStmt(p, fail)
    \/ \E rows \in RankOrders(ScopeRows(View(p).rules, calls[p].ns, calls[p].flag),
                              "ASC") :
          \E fail \in {"none", "query", "scan", "rows"} :
             QueryRemaining(p, rows, fail)
    \/ EnterOrderRules(p)
    \/ \E fail \in BOOLEAN : UpdateStmt(p, fail)
    \/ \E fail \in BOOLEAN : CommitTx(p, fail)

\* The caller has not called DeleteRule or OrderRules.
NoTxCall(p) == calls[p].op \notin {"DeleteRule", "OrderRules"}

\* A CreateRule call for the end of the scope, as the caller counts it when
\* it calls.
AppendRule(p, ns, flag, seg) ==
    /\ nextRule <= MaxRules
    /\ CreateRuleNow(p, ns, flag, seg, CountRulesResult(rules, ns, flag) + 1)

\* ------------------------------------------------------------ rank ledger
\* One caller calls CreateRule, DeleteRule and OrderRules, one call after
\* the other: rules are created in one scope, at its end or at rank 1 again;
\* rules are deleted and reordered in that scope and in an empty one; the id
\* lists name every rule of the scope once; any statement may fail.
RankNamespaces == {"default", "ns2"}
RankFlags == {"f1"}

ScopeIds(tbl, ns, flag) == { r.id : r \in ScopeRows(tbl, ns, flag) }

\* The lists of distinct rules of the scope.
ScopeLists(tbl, ns, flag) ==
    UNION { Orderings(T) : T \in SUBSET ScopeIds(tbl, ns, flag) }

\* Lists of rules of the scope, each at most once, or one id twice.
ShortIdLists(tbl, ns, flag) ==
    ScopeLists(tbl, ns, flag) \cup { <<id, id>> : id \in ScopeIds(tbl, ns, flag) }

\* The lists that name every rule of the scope once, and nothing else.
ScopePermutations(tbl, ns, flag) == Orderings(ScopeIds(tbl, ns, flag))

NextRank ==
    \/ \E flag \in RankFlags :
          \E rank \in {1, CountRulesResult(rules, DefaultNamespace, flag) + 1} :
             /\ nextRule <= MaxRules
             /\ CreateRuleNow("a", DefaultNamespace, flag, "s1", rank)
    \/ \E fail \in BOOLEAN : CreateRuleInsert("a", fail)
    \/ \E ns \in RankNamespaces, flag \in RankFlags, id \in RuleIds,
          fail \in BOOLEAN :
          BeginDelete("a", ns, flag, id, fail)
    \/ \E ns \in RankNamespaces, flag \in RankFlags :
          \E ruleIds \in ScopePermutations(rules, ns, flag), fail \in BOOLEAN :
             BeginOrder("a", ns, flag, ruleIds, fail)
    \/ TxStepsFailing("a")

SpecRank == Init /\ [][NextRank]_vars

\* ------------------------------------------------- the distribution ledger
\* One caller, one call after the other: rules are created at the end of
\* one scope, and deleted; distributions are created at rollout 50 with
\* every request tuple that names the first or the second rule, and updated
\* to 100 with every such tuple that leaves the namespace empty; any
\* statement of a distribution call may fail.
FlagExists(ns, flag) ==
    \E f \in Flags : f.namespace_key = ns /\ f.key = flag

DistNamespaces == {"default"}
RequestNamespaces == {"", "ns2"}
RequestRules == {1, 2}

NextDist ==
    \/ \E ns \in DistNamespaces, flag \in RankFlags : AppendRule("a", ns, flag, "s1")
    \/ CreateRuleInsert("a", FALSE)
    \/ \E ns \in DistNamespaces, flag \in RankFlags, id \in RuleIds :
          BeginDelete("a", ns, flag, id, FALSE)
    \/ TxSteps("a")
    \/ \E ns \in RequestNamespaces, flag \in FlagKeys, ruleId \in RequestRules,
          variantId \in VariantIds :
          CreateDistributionNow("a", ns, flag, ruleId, variantId, 50)
    \/ \E fail \in BOOLEAN : CreateDistributionValidate("a", fail)
    \/ \E fail \in BOOLEAN : CreateDistributionInsert("a", fail)
    \/ \E flag \in FlagKeys, id \in DistIds, ruleId \in RequestRules,
          variantId \in VariantIds, fail \in BOOLEAN :
          UpdateDistributionValidate("a", "", flag, id, ruleId, variantId, 100, fail)
    \/ UpdateDistributionNow("a")
    \/ \E fail \in ExecFailures : UpdateDistributionStmt("a", fail)
    \/ \E fail \in BOOLEAN : UpdateDistributionSelect("a", fail)

SpecDist == Init /\ [][NextDist]_vars

\* ------------------------------------------------------- the paged listing
\* One caller, one call after the other: one scope is filled with rules,
\* each created at the end of the scope or at the rank that is the count of
\* the scope, which another rule holds, and listed page by page; rules are
\* deleted. A listing without limit is asked from the start only.
ListNamespaces == {"default"}
ListFlags == {"f1"}

\* The tokens a caller passes here: none, a malformed one, the one of the
\* page it was given last.
ListTokens ==
    {<<>>, <<"junk">>}
      \cup (IF last.op = "ListRules" /\ last.err = "ok" THEN {last.res.next} ELSE {})

NextList ==
    \/ \E ns \in ListNamespaces, flag \in ListFlags :
          \E rank \in {Cardinality(ScopeRows(rules, ns, flag)),
                        Cardinality(ScopeRows(rules, ns, flag)) + 1} \ {0} :
             /\ nextRule <= MaxRules
             /\ CreateRuleNow("a", ns, flag, "s1", rank)
    \/ CreateRuleInsert("a", FALSE)
    \/ \E ns \in ListNamespaces, flag \in ListFlags, id \in RuleIds :
          BeginDelete("a", ns, flag, id, FALSE)
    \/ TxSteps("a")
    \/ \E ns \in ListNamespaces, flag \in ListFlags, order \in Orders :
          \E rows \in RankOrders(ScopeRows(rules, Namespace(ns), flag), order) :
             \E limit \in 0..MaxLimit :
                \E pageToken \in (IF limit = 0 THEN {<<>>} ELSE ListTokens),
                   offsetParam \in (IF limit = 0 THEN {0} ELSE 0..1) :
                   ListRulesSelect("a", ns, flag, limit, order, pageToken,
                                   offsetParam, rows, FALSE)
    \/ \E ns \in ListNamespaces, flag \in ListFlags, order \in Orders :
          \E rows \in RankOrders(ScopeRows(rules, Namespace(ns), flag), order) :
             ListRulesSelect("a", ns, flag, 0, order, <<>>, 0, rows, TRUE)
    \/ \E fail \in BOOLEAN : SetDistributions("a", fail)

SpecList == Init /\ [][NextList]_vars

\* ------------------------------------------------- distributions deleted
\* Rules are created at the end of one scope; distributions are created for
\* them with a variant of the namespace, at any time of the clock, and
\* deleted by every (id, rule id, variant id), the DELETE failing or not.
DelVariants == {"v1", "v2"}

NextDel ==
    \/ Tick
    \/ AppendRule("a", "default", "f1", "s1")
    \/ CreateRuleInsert("a", FALSE)
    \/ \E ruleId \in RuleIds, variantId \in DelVariants, rollout \in Rollouts :
          /\ nextDist <= MaxDists
          /\ CreateDistributionNow("a", "default", "f1", ruleId, variantId, rollout)
    \/ CreateDistributionValidate("a", FALSE)
    \/ CreateDistributionInsert("a", FALSE)
    \/ \E id \in DistIds, ruleId \in RuleIds, variantId \in DelVariants,
          fail \in BOOLEAN :
          DeleteDistribution("a", id, ruleId, variantId, fail)

SpecDel == Init /\ [][NextDel]_vars

\* ------------------------------------------------- the namespace left empty
\* One caller calls every handler with the namespace left empty: rules are
\* created at the end of flag f1's rules, counted, listed from the start and
\* reversed; the first rule is read, given segment s2, deleted, and given
\* distributions of variant v1, created at rollout 50, set to 100 and deleted.
NsRule == 1

NextNs ==
    \/ AppendRule("a", "", "f1", "s1")
    \/ CreateRuleInsert("a", FALSE)
    \/ GetRuleSelect("a", "", NsRule, FALSE)
    \/ SelectDistributions("a", FALSE)
    \/ CountRules("a", "", "f1", FALSE)
    \/ \E rows \in RankOrders(ListScope(rules, "", "f1"), "ASC") :
          ListRulesSelect("a", "", "f1", 0, "ASC", <<>>, 0, rows, FALSE)
    \/ SetDistributions("a", FALSE)
    \/ UpdateRuleNow("a", "", "f1", NsRule, "s2")
    \/ UpdateRuleStmt("a", "none")
    \/ UpdateRuleGet("a", FALSE)
    \/ BeginDelete("a", "", "f1", NsRule, FALSE)
    \/ \E rows \in RankOrders(ListScope(rules, "", "f1"), "DESC") :
          BeginOrder("a", "", "f1", Ids(rows), FALSE)
    \/ TxSteps("a")
    \/ /\ nextDist <= MaxDists
       /\ CreateDistributionNow("a", "", "f1", NsRule, "v1", 50)
    \/ CreateDistributionValidate("a", FALSE)
    \/ CreateDistributionInsert("a", FALSE)
    \/ \E id \in DistIds :
          UpdateDistributionValidate("a", "", "f1", id, NsRule, "v1", 100, FALSE)
    \/ UpdateDistributionNow("a")
    \/ UpdateDistributionStmt("a", "none")
    \/ UpdateDistributionSelect("a", FALSE)
    \/ \E id \in DistIds : DeleteDistribution("a", id, NsRule, "v1", FALSE)

SpecNs == Init /\ [][NextNs]_vars

\* ------------------------------------------------------- segments changed
\* Before the clock moves, one caller creates rules at the end of flag f1's
\* rules in two namespaces and gives the first rule a distribution; then it
\* gives the first or the second rule segment s2 under the empty or another
\* namespace, while the clock moves between its statements and any of them
\* fails, and a second caller gives the first rule segment s1.
NextUpd ==
    \/ Tick
    \/ \E ns \in RankNamespaces :
          /\ clock = 0
          /\ Free("b")
          /\ AppendRule("a", ns, "f1", "s1")
    \/ CreateRuleInsert("a", FALSE)
    \/ /\ clock = 0
       /\ Free("b")
       /\ nextDist <= MaxDists
       /\ CreateDistributionNow("a", "default", "f1", 1, "v1", 50)
    \/ CreateDistributionValidate("a", FALSE)
    \/ CreateDistributionInsert("a", FALSE)
    \/ \E ns \in RequestNamespaces, id \in RequestRules :
          UpdateRuleNow("a", ns, "f1", id, "s2")
    \/ /\ calls["a"].op = "UpdateRule"
       /\ ~Free("a")
       /\ calls["b"].pc = "idle"
       /\ UpdateRuleNow("b", "", "f1", 1, "s1")
    \/ \E p \in Callers, fail \in ExecFailures :
          /\ p = "b" => fail = "none"
          /\ UpdateRuleStmt(p, fail)
    \/ \E p \in Callers, fail \in BOOLEAN :
          /\ p = "b" => ~fail
          /\ UpdateRuleGet(p, fail)
    \/ \E p \in Callers, fail \in BOOLEAN :
          /\ p = "b" => ~fail
          /\ SelectDistributions(p, fail)

SpecUpd == Init /\ [][NextUpd]_vars

\* ------------------------------------------------- token and raw offset
\* One scope is filled with rules and listed in either order, with any
\* limit; every listing passes the raw offset 2, with no token or with a
\* token of any offset.
TokenRawOffset == 2

TokenArgs == {<<>>} \cup { EncodePageToken(1, offset) : offset \in 0..MaxRules }

NextToken ==
    \/ \E seg \in SegmentKeys : AppendRule("a", "default", "f1", seg)
    \/ CreateRuleInsert("a", FALSE)
    \/ \E order \in Orders :
          \E rows \in RankOrders(ListScope(rules, "default", "f1"), order) :
             \E limit \in 0..MaxLimit, pageToken \in TokenArgs :
                ListRulesSelect("a", "default", "f1", limit, order, pageToken,
                                TokenRawOffset, rows, FALSE)
    \/ SetDistributions("a", FALSE)

SpecToken == Init /\ [][NextToken]_vars

\* ------------------------------------------------------------ three scopes
\* Before the clock moves, one caller creates rules at the end of flag f1's
\* rules in the default namespace, and one rule each for the same flag in
\* another namespace and for another flag; then it makes one call: it
\* deletes the first or the second rule under any flag, or reorders any
\* flag's rules by a list that names every rule of the store, of that flag
\* or not, from the oldest to the newest or the other way round.
StoreLists(tbl) ==
    { s \in Orderings({ r.id : r \in tbl }) :
         \/ \A i \in 1..(Len(s) - 1) : s[i] < s[i + 1]
         \/ \A i \in 1..(Len(s) - 1) : s[i] > s[i + 1] }

NextScope ==
    \/ Free("a") /\ NoTxCall("a") /\ Tick
    \/ \E f \in Flags :
          /\ clock = 0
          /\ (f.namespace_key = DefaultNamespace /\ f.key = "f1")
                \/ CountRulesResult(rules, f.namespace_key, f.key) = 0
          /\ AppendRule("a", f.namespace_key, f.key, "s1")
    \/ CreateRuleInsert("a", FALSE)
    \/ \E f \in Flags, id \in RequestRules :
          /\ NoTxCall("a")
          /\ BeginDelete("a", f.namespace_key, f.key, id, FALSE)
    \/ \E f \in Flags :
          \E ruleIds \in StoreLists(rules) :
             /\ NoTxCall("a")
             /\ BeginOrder("a", f.namespace_key, f.key, ruleIds, FALSE)
    \/ TxSteps("a")

SpecScope == Init /\ [][NextScope]_vars

\* -------------------------------------------------------- ranks with gaps
\* One caller creates rules in two namespaces of flag f1 at a rank past the
\* end of their scope, leaving rank 1 free, or all at one rank; it calls
\* DeleteRule for every rule id under either namespace, also for ids the
\* scope does not hold.
NextGap ==
    \/ \E ns \in RankNamespaces :
          \E rank \in {CountRulesResult(rules, ns, "f1") + 2, MaxRules + 1} :
             /\ nextRule <= MaxRules
             /\ CreateRuleNow("a", ns, "f1", "s1", rank)
    \/ CreateRuleInsert("a", FALSE)
    \/ \E ns \in RankNamespaces, id \in RuleIds :
          BeginDelete("a", ns, "f1", id, FALSE)
    \/ TxSteps("a")

SpecGap == Init /\ [][NextGap]_vars

\* ------------------------------------------------------- concurrent callers
\* Rules are created at the end of one scope while nobody else is calling;
\* then each of two callers makes one DeleteRule or OrderRules call, any
\* statement failing, and their statements interleave. OrderRules is given a
\* permutation of the scope or a single id of it.
TxLists(tbl, ns, flag) ==
    ScopePermutations(tbl, ns, flag) \cup { <<id>> : id \in ScopeIds(tbl, ns, flag) }

\* Nobody is in a call, and nobody has called DeleteRule or OrderRules.
Idle == \A p \in Callers : Free(p) /\ NoTxCall(p)

\* Nobody is in the middle of a CreateRule.
Settled == \A p \in Callers : calls[p].pc # "insert"

NextTx ==
    \/ /\ Idle
       /\ AppendRule("a", "default", "f1", "s1")
    \/ CreateRuleInsert("a", FALSE)
    \/ \E p \in Callers, id \in RuleIds, fail \in BOOLEAN :
          /\ NoTxCall(p) /\ Settled
          /\ BeginDelete(p, "", "f1", id, fail)
    \/ \E p \in Callers :
          \E ruleIds \in TxLists(rules, "default", "f1") :
             \E fail \in BOOLEAN :
                /\ NoTxCall(p) /\ Settled
                /\ BeginOrder(p, "default", "f1", ruleIds, fail)
    \/ \E p \in Callers : TxStepsFailing(p)

SpecTx == Init /\ [][NextTx]_vars

\* ------------------------------------------------------ the clock moving
\* One caller makes one DeleteRule or OrderRules call on the rules created
\* before it, and the clock moves between any two of its statements.
StampCallers == {"a"}

NextStamp ==
    \/ Tick
    \/ /\ Idle
       /\ AppendRule("a", "default", "f1", "s1")
    \/ CreateRuleInsert("a", FALSE)
    \/ \E p \in StampCallers, id \in RuleIds :
          /\ NoTxCall(p)
          /\ BeginDelete(p, "", "f1", id, FALSE)
    \/ \E p \in StampCallers :
          \E ruleIds \in TxLists(rules, "default", "f1") :
             /\ NoTxCall(p)
             /\ BeginOrder(p, "default", "f1", ruleIds, FALSE)
    \/ \E p \in StampCallers : DeleteStmt(p, FALSE)
    \/ \E p \in StampCallers :
          \E rows \in RankOrders(ScopeRows(View(p).rules, calls[p].ns,
                                           calls[p].flag), "ASC") :
             QueryRemaining(p, rows, "none")
    \/ \E p \in StampCallers : EnterOrderRules(p)
    \/ \E p \in StampCallers, fail \in BOOLEAN : UpdateStmt(p, fail)
    \/ \E p \in StampCallers, fail \in BOOLEAN : CommitTx(p, fail)

SpecStamp == Init /\ [][NextStamp]_vars

\* ------------------------------------- a distribution written, a rule deleted
\* While nobody else is calling, caller a creates rules at the end of one
\* scope and gives them distributions. Then it deletes a rule, and caller b
\* makes one CreateDistribution or UpdateDistribution call for any rule and
\* distribution id; their statements interleave and any of them may fail.
Quiet == Free("a") /\ NoTxCall("a") /\ calls["b"].pc = "idle"

\* Caller a is not in the middle of a call that sets the scene.
SceneSet == Free("a") \/ ~NoTxCall("a")

NextRace ==
    \/ /\ Quiet
       /\ AppendRule("a", "default", "f1", "s1")
    \/ CreateRuleInsert("a", FALSE)
    \/ \E ruleId \in RuleIds :
          /\ Quiet
          /\ nextDist <= MaxDists
          /\ CreateDistributionNow("a", "default", "f1", ruleId, "v1", 50)
    \/ \E id \in RuleIds :
          /\ NoTxCall("a")
          /\ BeginDelete("a", "", "f1", id, FALSE)
    \/ TxStepsFailing("a")
    \/ \E ruleId \in RuleIds :
          /\ calls["b"].pc = "idle"
          /\ SceneSet
          /\ CreateDistributionNow("b", "", "f1", ruleId, "v1", 100)
    \/ \E p \in Callers, fail \in BOOLEAN :
          /\ p = "a" => ~fail
          /\ CreateDistributionValidate(p, fail)
    \/ \E p \in Callers, fail \in BOOLEAN :
          /\ p = "a" => ~fail
          /\ CreateDistributionInsert(p, fail)
    \/ \E id \in DistIds, ruleId \in RuleIds, fail \in BOOLEAN :
          /\ calls["b"].pc = "idle"
          /\ SceneSet
          /\ UpdateDistributionValidate("b", "", "f1", id, ruleId, "v1", 100, fail)
    \/ UpdateDistributionNow("b")
    \/ \E fail \in ExecFailures : UpdateDistributionStmt("b", fail)
    \/ \E fail \in BOOLEAN : UpdateDistributionSelect("b", fail)

SpecRace == Init /\ [][NextRace]_vars

\* The database as the transactions see it.
Db == [rules |-> rules, dists |-> dists]

\* The ranks of the scope are exactly 1..N, N its number of rules.
Dense(tbl, ns, flag) ==
    { r.rank : r \in ScopeRows(tbl, ns, flag) }
      = 1..Cardinality(ScopeRows(tbl, ns, flag))

Scopes == RankNamespaces \X FlagKeys

DenseScopes(tbl) == { sc \in Scopes : Dense(tbl, sc[1], sc[2]) }

RankOfId(tbl, id) == (CHOOSE r \in tbl : r.id = id).rank

\* C1, as stated: in every state, every scope's ranks are exactly 1..N.
\* (Fails: CreateRule stores the caller's rank verbatim, OrderRules takes any
\* list.)
C1_RanksAlwaysDense ==
    \A ns \in RankNamespaces, flag \in FlagKeys : Dense(rules, ns, flag)

\* C1, amended: a scope whose ranks are exactly 1..N still has ranks exactly
\* 1..N' after a successful CreateRule whose rank is its scope's count + 1,
\* after any successful DeleteRule, and after a successful OrderRules whose
\* list is a permutation of the ids of the scope it names. (From the empty
\* store, every sequence of such calls keeps every scope's ranks dense.)
C1_DisciplinedCallsKeepRanksDense ==
    /\ \A ns \in NamespaceArgs, flag \in FlagKeys, seg \in SegmentKeys :
         DenseScopes(rules) \subseteq
           DenseScopes(rules \cup
              {NewRule(nextRule, Namespace(ns), flag, seg,
                       Cardinality(ScopeRows(rules, Namespace(ns), flag)) + 1, clock)})
    /\ \A ns \in NamespaceArgs, flag \in FlagKeys, id \in RuleIds :
         \A rows \in RemainingRows(Db, ns, flag, id) :
           DenseScopes(rules) \subseteq
             DenseScopes(DeleteRuleResult(Db, ns, flag, id, rows, clock, "none", 1).db.rules)
    /\ \A ns \in NamespaceArgs, flag \in FlagKeys :
         \A ruleIds \in ScopePermutations(rules, Namespace(ns), flag) :
           DenseScopes(rules) \subseteq
             DenseScopes(OrderRulesResult(Db, ns, flag, ruleIds, clock, "none", 1).db.rules)

\* A rule was deleted out of a scope that still holds two rules, ranked 1, 2.
C1_Witness ==
    /\ last.op = "DeleteRule" /\ last.err = "ok"
    /\ \E id \in 1..(nextRule - 1) : \A r \in rules : r.id # id
    /\ \E ns \in RankNamespaces, flag \in FlagKeys :
         /\ Cardinality(ScopeRows(rules, ns, flag)) = 2
         /\ Dense(rules, ns, flag)

\* The rule belongs to the stated flag, the variant belongs to the stated
\* flag, and rule, variant and flag all live in the stated namespace.
Consistent(tbl, ns, flag, ruleId, variantId) ==
    /\ FlagExists(ns, flag)
    /\ \E r \in tbl : r.id = ruleId /\ r.namespace_key = ns /\ r.flag_key = flag
    /\ \E v \in Variants : v.id = variantId /\ v.namespace_key = ns /\ v.flag_key = flag

\* C2, as stated: for every request tuple that is not consistent,
\* CreateDistribution and UpdateDistribution fail with NotFound and leave
\* the distributions as they were.
\* (Fails: the validation join ties rule, variant and flag by namespace only.)
C2_OnlyConsistentTuplesWrite ==
    \A ns \in NamespaceArgs, flag \in FlagKeys, ruleId \in RuleIds,
       variantId \in VariantIds, rollout \in Rollouts :
      ~Consistent(rules, Namespace(ns), flag, ruleId, variantId) =>
        /\ LET c == CreateDistributionResult(rules, dists, nextDist, ns, flag, ruleId,
                                             variantId, rollout, clock, "none")
           IN c.err = "NotFound" /\ c.dists = dists
        /\ \A id \in DistIds :
             LET u == UpdateDistributionResult(rules, dists, ns, flag, id, ruleId,
                                               variantId, rollout, clock, "none")
             IN u.err = "NotFound" /\ u.dists = dists

\* C3: CreateDistribution naming a rule that exists and a variant that is
\* not of the rule's namespace (though it exists in another) fails with
\* NotFound and inserts nothing, whatever namespace and flag it states.
C3_ForeignVariantIsNotFound ==
    \A ns \in NamespaceArgs, flag \in FlagKeys, ruleId \in RuleIds,
       variantId \in VariantIds, rollout \in Rollouts :
      (\E r \in rules :
          /\ r.id = ruleId
          /\ \A v \in Variants : v.id = variantId => v.namespace_key # r.namespace_key) =>
        LET c == CreateDistributionResult(rules, dists, nextDist, ns, flag, ruleId,
                                          variantId, rollout, clock, "none")
        IN c.err = "NotFound" /\ c.dists = dists

\* CreateDistribution was refused for a rule that exists and a variant that
\* exists in another namespace than the rule's.
C3_Witness ==
    /\ last.op = "CreateDistribution" /\ last.err = "NotFound"
    /\ \E r \in rules, v \in Variants :
         /\ r.id = last.res.rule_id /\ v.id = last.res.variant_id
         /\ v.namespace_key # r.namespace_key
    /\ dists = {}

\* The rule ids that were handed out and are no longer stored.
GoneIds == { id \in 1..(nextRule - 1) : \A r \in rules : r.id # id }

\* C4: a successful DeleteRule of a rule leaves neither the rule nor a
\* distribution of it in the store; and in every state, for every rule id
\* that was handed out and is no longer stored, no distribution of it is
\* stored, GetRule of it is NotFound, and no answer of GetRule or ListRules
\* holds it or a distribution of it.
C4_DeletedRuleIsGone ==
    /\ \A ns \in NamespaceArgs, flag \in FlagKeys, id \in RuleIds :
         RuleRows(rules, id, Namespace(ns), flag) # {} =>
           \A rows \in RemainingRows(Db, ns, flag, id) :
             LET out == DeleteRuleResult(Db, ns, flag, id, rows, clock, "none", 1)
             IN /\ out.err = "ok"
                /\ \A r \in out.db.rules : r.id # id
                /\ \A d \in out.db.dists : d.rule_id # id
    /\ \A d \in dists : d.rule_id \notin GoneIds
    /\ \A ns \in NamespaceArgs, id \in RuleIds :
         LET g == GetRuleResult(rules, dists, ns, id, "none", {})
         IN IF id \in GoneIds
            THEN g.err = "NotFound"
            ELSE g.err = "ok" =>
                   \A d \in g.res.distributions : d.rule_id \notin GoneIds
    /\ \A ns \in NamespaceArgs, flag \in FlagKeys, order \in Orders :
         \A rows \in RankOrders(ScopeRows(rules, Namespace(ns), flag), order) :
           \A limit \in 0..MaxLimit, offsetParam \in 0..1 :
             LET l == ListRulesResult(dists, limit, <<>>, offsetParam, rows)
             IN \A i \in 1..Len(l.results) :
                  /\ l.results[i].id \notin GoneIds
                  /\ \A d \in l.results[i].distributions : d.rule_id \notin GoneIds

\* A distribution was created for a rule, the rule was deleted, and no
\* distribution is left.
C4_Witness ==
    /\ last.op = "DeleteRule" /\ last.err = "ok"
    /\ nextDist = 2
    /\ dists = {}
    /\ \E id \in 1..(nextRule - 1) : \A r \in rules : r.id # id

\* C5: a successful DeleteRule of a rule of the scope leaves the other rules
\* of the scope, with ranks exactly 1..N-1, and any two of them whose ranks
\* differed stay in the same relative order.
C5_DeleteCompactsInOrder ==
    \A ns \in NamespaceArgs, flag \in FlagKeys, id \in RuleIds :
      RuleRows(rules, id, Namespace(ns), flag) # {} =>
        \A rows \in RemainingRows(Db, ns, flag, id) :
          LET before == ScopeRows(rules, Namespace(ns), flag)
              kept == before \ RuleRows(rules, id, Namespace(ns), flag)
              out == DeleteRuleResult(Db, ns, flag, id, rows, clock, "none", 1)
              after == ScopeRows(out.db.rules, Namespace(ns), flag)
          IN /\ out.err = "ok"
             /\ { r.id : r \in after } = { r.id : r \in kept }
             /\ Cardinality(after) = Cardinality(before) - 1
             /\ { r.rank : r \in after } = 1..(Cardinality(before) - 1)
             /\ \A a, b \in kept :
                  a.rank < b.rank => RankOfId(after, a.id) < RankOfId(after, b.id)

\* Rules 1, 2, 3 were created, rule 2 was deleted, and rules 1 and 3 of one
\* scope hold ranks 1 and 2.
C5_Witness ==
    /\ last.op = "DeleteRule" /\ last.err = "ok"
    /\ nextRule = 4
    /\ \E ns \in RankNamespaces, flag \in FlagKeys :
         /\ ScopeIds(rules, ns, flag) = {1, 3}
         /\ RankOfId(rules, 1) = 1 /\ RankOfId(rules, 3) = 2
    /\ \A r \in rules : r.id # 2

\* C6: after a successful OrderRules whose list names distinct rules of the
\* scope, the rule at position i (from 0) of the list has rank i+1.
C6_OrderFollowsList ==
    \A ns \in NamespaceArgs, flag \in FlagKeys :
      \A ruleIds \in ScopeLists(rules, Namespace(ns), flag) :
        LET out == OrderRulesResult(Db, ns, flag, ruleIds, clock, "none", 1)
        IN /\ out.err = "ok"
           /\ \A i \in 1..Len(ruleIds) :
                \E r \in ScopeRows(out.db.rules, Namespace(ns), flag) :
                   r.id = ruleIds[i] /\ r.rank = (i - 1) + 1

\* An OrderRules call succeeded and two rules of one scope are ranked against
\* the order of their creation.
C6_Witness ==
    /\ last.op = "OrderRules" /\ last.err = "ok"
    /\ \E ns \in RankNamespaces, flag \in FlagKeys :
         /\ ScopeIds(rules, ns, flag) = {1, 2}
         /\ RankOfId(rules, 1) = 2 /\ RankOfId(rules, 2) = 1

\* No two rules of the scope share a rank.
RanksDistinct(tbl, ns, flag) ==
    \A a, b \in ScopeRows(tbl, ns, flag) : a # b => a.rank # b.rank

\* The pages a caller has gathered by following tokens, the rules unchanged,
\* are one run of a rank-ordered list of the scope, from the offset it began
\* at to the end of the last page; a token carries the offset of the page
\* plus the limit; and when the caller began at 0 and the last page has no
\* token, the pages are the whole list, every rule once.
PagesAreConsecutive ==
    LET scope == ScopeRows(rules, last.res.ns, last.res.flag)
        end == Min(Cardinality(scope), last.res.offset + last.res.limit)
    IN /\ last.res.next # <<>> =>
            decodePageToken(last.res.next).Offset = last.res.offset + last.res.limit
       /\ \E all \in RankOrders(scope, last.res.order) :
            /\ last.res.pages = SubSeq(Ids(all), last.res.first + 1, end)
            /\ (last.res.next = <<>> /\ last.res.first = 0) =>
                 last.res.pages = Ids(all)

\* C7, as stated: with limit > 0 and the rules unchanged between the calls,
\* the pages are consecutive slices of the rank-ordered list.
\* (Fails when two rules of the scope share a rank: each query may order
\* them its own way.)
C7_PagesAreConsecutiveSlices ==
    (last.op = "ListRules" /\ last.err = "ok" /\ last.res.limit > 0) =>
      PagesAreConsecutive

\* C7, amended: the same, when no two rules of the scope share a rank.
C7_PagesAreConsecutiveWhenRanksDiffer ==
    (/\ last.op = "ListRules" /\ last.err = "ok" /\ last.res.limit > 0
     /\ RanksDistinct(rules, last.res.ns, last.res.flag)) =>
      PagesAreConsecutive

\* Three rules of distinct ranks were listed from offset 0 one rule a page,
\* and the third page, without token, ended the listing.
C7_Witness ==
    /\ last.op = "ListRules" /\ last.err = "ok"
    /\ last.res.limit = 1 /\ last.res.first = 0 /\ last.res.offset = 2
    /\ last.res.next = <<>>
    /\ Len(last.res.pages) = 3
    /\ RanksDistinct(rules, last.res.ns, last.res.flag)

\* The offsets a caller can ask for: by token (whose key is not read) or raw.
OffsetTokens == {<<>>} \cup { EncodePageToken(1, offset) : offset \in 0..MaxRules }

\* C8: ListRules with limit L > 0 returns at most L rules, and a token if
\* and only if the scope holds more than offset + L rules.
C8_TokenIffMoreRules ==
    \A ns \in NamespaceArgs, flag \in FlagKeys, order \in Orders :
      \A rows \in RankOrders(ScopeRows(rules, Namespace(ns), flag), order) :
        \A limit \in 1..MaxLimit, pageToken \in OffsetTokens, offsetParam \in 0..MaxRules :
          LET l == ListRulesResult(dists, limit, pageToken, offsetParam, rows)
          IN /\ l.err = "ok"
             /\ Len(l.results) <= limit
             /\ l.next # <<>> <=> Len(rows) > l.offset + limit

\* Three rules were listed two a page: the second page, from offset 2, holds
\* the one rule left and no token.
C8_Witness ==
    /\ last.op = "ListRules" /\ last.err = "ok"
    /\ last.res.limit = 2 /\ last.res.first = 0 /\ last.res.offset = 2
    /\ Len(last.res.results) = 1 /\ last.res.next = <<>>
    /\ Len(last.res.pages) = 3

\* The distribution row that id, rule id and variant id name exists, and its
\* rule is of the stated namespace and flag.
DistMatches(tbl, ds, ns, flag, id, ruleId, variantId) ==
    /\ DistRows(ds, id, ruleId, variantId) # {}
    /\ \E r \in tbl : r.id = ruleId /\ r.namespace_key = ns /\ r.flag_key = flag

\* C9, as stated: UpdateRule for an id that is not a rule of the stated
\* namespace and flag, and UpdateDistribution for an id that is not a
\* distribution of the stated rule and variant in the stated namespace and
\* flag, fail with NotFound and change no row.
\* (Fails for UpdateDistribution stating another flag of the namespace.)
C9_MismatchedUpdatesChangeNothing ==
    /\ \A ns \in NamespaceArgs, flag \in FlagKeys, id \in RuleIds, seg \in SegmentKeys :
         RuleRows(rules, id, Namespace(ns), flag) = {} =>
           LET u == UpdateRuleResult(rules, dists, ns, flag, id, seg, clock, "none", {})
           IN u.err = "NotFound" /\ u.rules = rules
    /\ \A ns \in NamespaceArgs, flag \in FlagKeys, id \in DistIds, ruleId \in RuleIds,
          variantId \in VariantIds, rollout \in Rollouts :
         ~DistMatches(rules, dists, Namespace(ns), flag, id, ruleId, variantId) =>
           LET u == UpdateDistributionResult(rules, dists, ns, flag, id, ruleId,
                                             variantId, rollout, clock, "none")
           IN u.err = "NotFound" /\ u.dists = dists

\* The step is one of caller p's own: its call record changes in more than
\* the mark of who committed last.
StepOf(p) == [calls'[p] EXCEPT !.latest = calls[p].latest] # calls[p]

\* C10: a DeleteRule in which a step fails (Begin, the DELETE, the re-read,
\* any one UPDATE of the compaction, Commit) returns an error and leaves the
\* stored state as it was before the call. Every statement of a DeleteRule
\* call other than its successful Commit leaves the committed rules and
\* distributions exactly as they were, the statement that fails and the
\* rollback that follows it included; the call returns without an error only
\* when its Commit has succeeded, and returns at the step that fails.
C10_FailedDeleteChangesNothing ==
    [][\A p \in Callers :
          (calls'[p].op = "DeleteRule" /\ StepOf(p)) =>
             /\ calls'[p].state # "committed" =>
                   /\ rules' = rules
                   /\ dists' = dists
             /\ calls'[p].pc = "returned" =>
                   (calls'[p].err = "ok" <=> calls'[p].state = "committed")
             /\ calls'[p].state \in {"none", "rolledback"} =>
                   /\ calls'[p].pc = "returned"
                   /\ calls'[p].err # "ok"]_vars

\* A DeleteRule has returned an error after its transaction had deleted the
\* rule and sent the first UPDATE of the compaction: the transaction is
\* rolled back, the rule is stored, and the three rules of its scope have
\* the ranks, not dense, they had.
C10_Witness ==
    /\ calls["a"].op = "DeleteRule"
    /\ calls["a"].pc = "returned"
    /\ calls["a"].err = "error"
    /\ calls["a"].state = "rolledback"
    /\ calls["a"].n >= 1
    /\ RuleRows(rules, calls["a"].id, calls["a"].ns, calls["a"].flag) # {}
    /\ Cardinality(ScopeRows(rules, calls["a"].ns, calls["a"].flag)) = 3
    /\ ~Dense(rules, calls["a"].ns, calls["a"].flag)

\* ------------------------------------------------------------ transactions
\* The rule table a call leaves when all of its statements take effect: the
\* DELETE of DeleteRule, then every UPDATE of orderRules.
WholeCall(db, tx) ==
    orderRules(IF tx.op = "DeleteRule"
               THEN DeleteRow(db, tx.id, tx.ns, tx.flag).rules
               ELSE db.rules,
               tx.ns, tx.flag, tx.ruleIDs, tx.updatedAt, Len(tx.ruleIDs))

\* C11: the committed rules never show part of a DeleteRule or OrderRules
\* call. Whenever the committed rule table changes while callers are at
\* work, it changes from the table before a call's commit to that table with
\* the whole call applied: the DELETE and every rank UPDATE of the call, or
\* every rank UPDATE of a reorder, never the DELETE alone or a prefix.
C11_CommitsPublishWholeCalls ==
    [][rules' # rules =>
          \/ nextRule' # nextRule
          \/ \E p \in Callers :
                /\ calls[p].state = "open"
                /\ calls'[p].state = "committed"
                /\ rules' = WholeCall(Db, calls[p])]_vars

\* Two calls are open at once, one of them a DeleteRule that has sent its
\* DELETE and some but not all of its UPDATEs, and the committed table still
\* holds the rule.
C11_Witness ==
    \E p \in Callers, q \in Callers :
        /\ p # q
        /\ calls[q].state = "open"
        /\ calls[p].state = "open"
        /\ calls[p].op = "DeleteRule"
        /\ calls[p].pc = "update"
        /\ calls[p].n >= 1
        /\ calls[p].n < Len(calls[p].ruleIDs)
        /\ RuleRows(rules, calls[p].id, calls[p].ns, calls[p].flag) # {}

\* The ids a call's compaction names: the ids DeleteRule read back, the ids
\* OrderRules was given.
Named(tx) == { tx.ruleIDs[i] : i \in 1..Len(tx.ruleIDs) }

\* The rank the call's last UPDATE of the id sets.
AssignedRank(tx, id) ==
    CHOOSE i \in 1..Len(tx.ruleIDs) :
        /\ tx.ruleIDs[i] = id
        /\ \A j \in 1..Len(tx.ruleIDs) : tx.ruleIDs[j] = id => j <= i

\* Both callers called on the same scope and both calls committed.
BothCommitted ==
    /\ \A p \in Callers : calls[p].state = "committed"
    /\ \A p \in Callers, q \in Callers :
          calls[p].ns = calls[q].ns /\ calls[p].flag = calls[q].flag

\* C12 as stated: after two calls on one scope have both committed, every
\* remaining rule of the scope has the rank the call that committed last
\* assigned to it.
C12_LastCommitAssignsEveryRank ==
    BothCommitted =>
        \A p \in Callers :
            calls[p].latest =>
                \A r \in ScopeRows(rules, calls[p].ns, calls[p].flag) :
                    /\ r.id \in Named(calls[p])
                    /\ r.rank = AssignedRank(calls[p], r.id)

\* C12: after two calls on one scope have both committed, every remaining
\* rule that the call that committed last names in its compaction has the
\* rank that call assigned to it, and a DeleteRule that committed last names
\* every remaining rule.
C12_LastCommitAssignsNamedRanks ==
    BothCommitted =>
        \A p \in Callers :
            calls[p].latest =>
                \A r \in ScopeRows(rules, calls[p].ns, calls[p].flag) :
                    /\ r.id \in Named(calls[p]) => r.rank = AssignedRank(calls[p], r.id)
                    /\ calls[p].op = "DeleteRule" => r.id \in Named(calls[p])

\* Two DeleteRule calls overlapped and both committed: each read the rule the
\* other deleted, and a rule remains that both of them ranked differently.
C12_Witness ==
    \E p \in Callers, q \in Callers :
        /\ p # q
        /\ BothCommitted
        /\ calls[p].latest
        /\ calls[p].op = "DeleteRule"
        /\ calls[q].op = "DeleteRule"
        /\ calls[q].id \in Named(calls[p])
        /\ calls[p].id \in Named(calls[q])
        /\ \E r \in rules :
              /\ r.id \in Named(calls[p]) \cap Named(calls[q])
              /\ AssignedRank(calls[p], r.id) # AssignedRank(calls[q], r.id)

\* ------------------------------------------------- deleting distributions
\* C13: DeleteDistribution is idempotent. For every (id, rule id, variant
\* id), a call whose DELETE does not fail returns success whether or not a
\* row matches; it removes the rows that match all three and no other; when
\* none matches it leaves the distributions as they are; and a second call
\* with the same (id, rule id, variant id) returns success again and leaves
\* what the first one left.
C13_DeleteDistributionIsIdempotent ==
    \A id \in DistIds, ruleId \in RuleIds, variantId \in VariantIds :
        LET once  == DeleteDistributionResult(dists, id, ruleId, variantId, FALSE)
            twice == DeleteDistributionResult(once.dists, id, ruleId, variantId, FALSE)
        IN /\ once.err = "ok"
           /\ once.dists = { d \in dists : ~(/\ d.id = id
                                             /\ d.rule_id = ruleId
                                             /\ d.variant_id = variantId) }
           /\ DistRows(dists, id, ruleId, variantId) = {} => once.dists = dists
           /\ twice.err = "ok"
           /\ twice.dists = once.dists

\* A DeleteDistribution has returned success with every distribution ever
\* created still stored: its (id, rule id, variant id) matched no row.
C13_Witness ==
    /\ last.op = "DeleteDistribution"
    /\ last.err = "ok"
    /\ dists # {}
    /\ Cardinality(dists) = nextDist - 1

\* ------------------------------------------------------ namespace default
\* C14: a call that leaves the namespace empty has the result and the effect
\* of the same call with the default namespace. For every input, GetRule
\* returns the same; ListRules selects from the same rows and CountRules
\* counts the same; CreateRule stores and returns the same rule; UpdateRule,
\* DeleteRule, OrderRules, CreateDistribution and UpdateDistribution leave
\* the same tables and return the same.
C14_EmptyNamespaceIsDefault ==
    /\ \A id \in RuleIds, fail \in GetRuleFailures :
          \A seen \in Scanned(DistributionsOf(dists, {id})) :
             GetRuleResult(rules, dists, "", id, fail, seen)
               = GetRuleResult(rules, dists, DefaultNamespace, id, fail, seen)
    /\ \A flag \in FlagKeys :
          /\ ListScope(rules, "", flag) = ListScope(rules, DefaultNamespace, flag)
          /\ CountRulesResult(rules, "", flag)
               = CountRulesResult(rules, DefaultNamespace, flag)
          /\ \A seg \in SegmentKeys, rank \in 1..MaxRules :
                CreateRuleResult(rules, nextRule, "", flag, seg, rank, clock)
                  = CreateRuleResult(rules, nextRule, DefaultNamespace, flag, seg,
                                     rank, clock)
          /\ \A id \in RuleIds, seg \in SegmentKeys, fail \in UpdateRuleFailures :
                \A seen \in Scanned(DistributionsOf(dists, {id})) :
                   UpdateRuleResult(rules, dists, "", flag, id, seg, clock, fail, seen)
                     = UpdateRuleResult(rules, dists, DefaultNamespace, flag, id, seg,
                                        clock, fail, seen)
          /\ \A id \in RuleIds :
                /\ RemainingRows(Db, "", flag, id)
                     = RemainingRows(Db, DefaultNamespace, flag, id)
                /\ \A rows \in RemainingRows(Db, DefaultNamespace, flag, id) :
                      DeleteRuleResult(Db, "", flag, id, rows, clock, "none", 1)
                        = DeleteRuleResult(Db, DefaultNamespace, flag, id, rows,
                                           clock, "none", 1)
          /\ \A ruleIds \in ShortIdLists(rules, DefaultNamespace, flag) :
                OrderRulesResult(Db, "", flag, ruleIds, clock, "none", 1)
                  = OrderRulesResult(Db, DefaultNamespace, flag, ruleIds, clock,
                                     "none", 1)
          /\ \A ruleId \in RuleIds, variantId \in VariantIds, rollout \in Rollouts :
                /\ \A fail \in CreateDistributionFailures :
                      CreateDistributionResult(rules, dists, nextDist, "", flag, ruleId,
                                               variantId, rollout, clock, fail)
                        = CreateDistributionResult(rules, dists, nextDist,
                                                   DefaultNamespace, flag, ruleId,
                                                   variantId, rollout, clock, fail)
                /\ \A id \in DistIds, fail \in UpdateDistributionFailures :
                      UpdateDistributionResult(rules, dists, "", flag, id, ruleId,
                                               variantId, rollout, clock, fail)
                        = UpdateDistributionResult(rules, dists, DefaultNamespace,
                                                   flag, id, ruleId, variantId,
                                                   rollout, clock, fail)

\* A rule and its distribution, both created by calls that left the
\* namespace empty, are stored under the default namespace, and an
\* UpdateDistribution that left it empty has found them.
C14_Witness ==
    /\ last.op = "UpdateDistribution"
    /\ last.err = "ok"
    /\ \E r \in rules, d \in dists :
          /\ r.namespace_key = DefaultNamespace
          /\ d.rule_id = r.id
          /\ d.rollout = 100

\* ------------------------------------------------------------- UpdateRule
\* C15: an UpdateRule changes, of the rule its request names, the segment
\* and the updated timestamp and nothing else. Every statement of the call
\* leaves every distribution as it is, and the rules as they are but for the
\* UPDATE, which gives the rule of the requested id the requested segment
\* and the time the call read; and the rule a successful call returns has
\* the id, namespace, flag, rank and created timestamp of the rule stored
\* under the requested id.
C15_UpdateRuleChangesSegmentOnly ==
    [][\A p \in Callers :
          (calls[p].op = "UpdateRule" /\ ~Free(p) /\ calls'[p] # calls[p]) =>
             /\ dists' = dists
             /\ \/ rules' = rules
                \/ \E t \in rules :
                      /\ t.id = calls[p].id
                      /\ rules' = (rules \ {t})
                                    \cup {[t EXCEPT !.segment_key = calls[p].seg,
                                                    !.updated_at = calls[p].now]}
             /\ (calls'[p].pc = "returned" /\ calls'[p].err = "ok") =>
                   \E t \in rules :
                      /\ t.id = calls[p].id
                      /\ calls'[p].res.id = t.id
                      /\ calls'[p].res.namespace_key = t.namespace_key
                      /\ calls'[p].res.flag_key = t.flag_key
                      /\ calls'[p].res.rank = t.rank
                      /\ calls'[p].res.created_at = t.created_at]_vars

\* An UpdateRule has succeeded on a rule that has a distribution and was
\* created earlier, with another rule in its scope and a rule of the same
\* flag in another namespace.
C15_Witness ==
    /\ last.op = "UpdateRule"
    /\ last.err = "ok"
    /\ last.res.segment_key = "s2"
    /\ last.res.updated_at > last.res.created_at
    /\ last.res.distributions # {}
    /\ \E r \in rules :
          /\ r.id # last.res.id
          /\ r.namespace_key = last.res.namespace_key
          /\ r.flag_key = last.res.flag_key
    /\ \E r \in rules :
          /\ r.namespace_key # last.res.namespace_key
          /\ r.flag_key = last.res.flag_key

\* C16: no transaction outlives the call that opened it. A transaction is
\* open only while its call is between Begin and its return; once the call
\* has returned, on success or on the failure of any statement, the
\* transaction it opened is committed or rolled back, and a call whose Begin
\* failed has opened none, nor has a call of another handler.
C16_NoTransactionOutlivesItsCall ==
    \A p \in Callers :
        /\ calls[p].state = "open" =>
              /\ ~NoTxCall(p)
              /\ calls[p].pc \in {"delete", "query", "enter", "update"}
        /\ (~NoTxCall(p) /\ calls[p].pc = "returned") =>
              /\ calls[p].state \in {"none", "committed", "rolledback"}
              /\ calls[p].state = "committed" <=> calls[p].err = "ok"
        /\ NoTxCall(p) => calls[p].state = "none"

\* A call has returned an error after its transaction had sent the first
\* UPDATE of the compaction, the transaction is rolled back, and the other
\* caller's transaction is still open.
C16_Witness ==
    \E p \in Callers, q \in Callers :
        /\ p # q
        /\ calls[p].pc = "returned"
        /\ calls[p].err = "error"
        /\ calls[p].n >= 1
        /\ calls[p].state = "rolledback"
        /\ calls[q].state = "open"

\* C17: one compaction stamps every rule it ranks with one timestamp, the
\* one captured when it started. Every rank UPDATE a call has sent carries
\* the call's updatedAt, however far the clock has moved since, and once the
\* call has committed every rule it named has that updated timestamp.
C17_OneTimestampPerCompaction ==
    \A p \in Callers :
        /\ \A i \in 1..Len(calls[p].writes) :
              calls[p].writes[i].kind = "rank" =>
                  calls[p].writes[i].at = calls[p].updatedAt
        /\ calls[p].state = "committed" =>
              \A r \in ScopeRows(rules, calls[p].ns, calls[p].flag) :
                  r.id \in Named(calls[p]) => r.updated_at = calls[p].updatedAt

\* A compaction of two rules or more has committed after the clock moved
\* past the time it started at, and two rules it ranked remain.
C17_Witness ==
    \E p \in Callers :
        /\ calls[p].state = "committed"
        /\ clock > calls[p].updatedAt
        /\ \E r \in rules, t \in rules :
              /\ r.id # t.id
              /\ {r.id, t.id} \subseteq Named(calls[p])

\* ------------------------------------------------------- token and offset
\* C18: the page token takes precedence over the raw offset. A listing given
\* a token and a raw offset returns what the listing given the token alone
\* returns: it starts at the token's offset, and the token it returns
\* continues from the token's offset plus the rules returned. A listing
\* given no token starts at the raw offset.
C18_TokenOffsetTakesPrecedence ==
    \A order \in Orders :
      \A rows \in RankOrders(ListScope(rules, "default", "f1"), order) :
        \A limit \in 0..MaxLimit, offsetParam \in 0..MaxRules :
            /\ ListRulesResult(dists, limit, <<>>, offsetParam, rows).offset = offsetParam
            /\ \A pageToken \in TokenArgs \ {<<>>} :
                  LET l == ListRulesResult(dists, limit, pageToken, offsetParam, rows)
                  IN /\ l = ListRulesResult(dists, limit, pageToken, 0, rows)
                     /\ l.offset = decodePageToken(pageToken).Offset
                     /\ l.next # <<>> =>
                           decodePageToken(l.next).Offset
                             = decodePageToken(pageToken).Offset + Len(l.results)

\* A listing of three rules, one a page, given the token of offset 1 and the
\* raw offset 2, has returned the second rule and the token of offset 2.
C18_Witness ==
    /\ last.op = "ListRules"
    /\ last.err = "ok"
    /\ last.res.order = "ASC"
    /\ last.res.offset = 1
    /\ last.res.offset # TokenRawOffset
    /\ Len(last.res.results) = 1
    /\ last.res.results[1].rank = 2
    /\ last.res.next # <<>>
    /\ decodePageToken(last.res.next).Offset = 2

\* ----------------------------------------------------------- other scopes
\* The rules that are not of the namespace and flag.
OtherScopes(tbl, ns, flag) ==
    { r \in tbl : ~(r.namespace_key = ns /\ r.flag_key = flag) }

\* C19: OrderRules and DeleteRule for one namespace and flag leave every rule
\* of another namespace or another flag as it is, rank and updated timestamp
\* included, whatever rule id DeleteRule is given and whichever ids of the
\* store, of the scope or not, the list of OrderRules names.
C19_OtherScopesUntouched ==
    /\ \A T \in SUBSET { r.id : r \in rules } :
          \A ruleIds \in Orderings(T) :
             \A ns \in RequestNamespaces, flag \in FlagKeys :
                OtherScopes(OrderRulesResult(Db, ns, flag, ruleIds, clock,
                                             "none", 1).db.rules,
                            Namespace(ns), flag)
                  = OtherScopes(rules, Namespace(ns), flag)
    /\ \A ns \in RequestNamespaces, flag \in FlagKeys, id \in RuleIds :
          \A rows \in RemainingRows(Db, ns, flag, id) :
             OtherScopes(DeleteRuleResult(Db, ns, flag, id, rows, clock,
                                          "none", 1).db.rules,
                         Namespace(ns), flag)
               = OtherScopes(rules, Namespace(ns), flag)

\* An OrderRules given every id of the store has succeeded after the clock
\* moved: a rule of its scope carries the new timestamp, and a rule of
\* another namespace and a rule of another flag, both named in the list,
\* carry the rank and the timestamp they were created with.
C19_Witness ==
    /\ last.op = "OrderRules"
    /\ last.err = "ok"
    /\ clock > 0
    /\ \E r \in rules, a \in rules, b \in rules :
          /\ r.updated_at = clock
          /\ a.namespace_key # r.namespace_key
          /\ b.flag_key # r.flag_key
          /\ a.updated_at = a.created_at
          /\ b.updated_at = b.created_at
          /\ a.rank = 1
          /\ b.rank = 1

\* ------------------------------------------------- deleting what is absent
\* C20: a DeleteRule whose id matches no rule of the stated namespace and
\* flag returns success and removes no rule and no distribution, and it
\* still compacts: the rules of the scope get ranks exactly 1..N, any two
\* whose ranks differed stay in the same relative order, and nothing else of
\* them changes but the updated timestamp.
C20_AbsentIdStillCompacts ==
    \A ns \in NamespaceArgs, flag \in FlagKeys, id \in RuleIds :
      RuleRows(rules, id, Namespace(ns), flag) = {} =>
        \A rows \in RemainingRows(Db, ns, flag, id) :
          LET before == ScopeRows(rules, Namespace(ns), flag)
              out == DeleteRuleResult(Db, ns, flag, id, rows, clock, "none", 1)
              after == ScopeRows(out.db.rules, Namespace(ns), flag)
          IN /\ out.err = "ok"
             /\ out.db.dists = dists
             /\ Cardinality(out.db.rules) = Cardinality(rules)
             /\ { [r EXCEPT !.rank = 0, !.updated_at = 0] : r \in out.db.rules }
                  = { [r EXCEPT !.rank = 0, !.updated_at = 0] : r \in rules }
             /\ { r.rank : r \in after } = 1..Cardinality(before)
             /\ \A a, b \in before :
                  a.rank < b.rank => RankOfId(after, a.id) < RankOfId(after, b.id)

\* No rule was ever deleted, a DeleteRule has succeeded, and two rules of one
\* scope, both created past rank 1, hold ranks 1 and 2.
C20_Witness ==
    /\ last.op = "DeleteRule"
    /\ last.err = "ok"
    /\ Cardinality(rules) = nextRule - 1
    /\ \E a \in rules, b \in rules :
          /\ a.namespace_key = b.namespace_key
          /\ a.flag_key = b.flag_key
          /\ a.rank = 1
          /\ b.rank = 2

====
